---- MODULE Spec2Model ----
(***************************************************************************)
(* The graph scheduler of PipeWire: the activation records, the target     *)
(* lists and the cycle protocol of src/pipewire/node.c, together with the  *)
(* client side of an exported node (module-client-node/remote-node.c).     *)
(*                                                                         *)
(* One server process runs the data loop on which the driver and the       *)
(* local followers are scheduled: a handler of that loop (node_ready,      *)
(* node_on_fd_events, an invoked do_node_add ...) runs to completion, the  *)
(* process functions it triggers being called inline, so each handler is   *)
(* one action.  An exported node lives in a client process with a data     *)
(* loop of its own; its handler is cut at every access to the shared       *)
(* activation memory, so that its steps interleave with other processes.   *)
(***************************************************************************)
EXTENDS Integers, Sequences, FiniteSets, TLC

(* ------------------------------ bounds -------------------------------- *)

\* process calls of one node that may be waiting for their ready callback
MaxAsync == 1
\* xrun callbacks counted
MaxXrun == 2
\* largest delay an xrun callback reports
MaxDelay == 1
\* peer links a client keeps for its node
MaxLinks == 2
\* set_activation messages a client receives
MaxMsgs == 3
\* items in the work queue of a node
MaxWork == 2
\* sequence numbers of asynchronous results
MaxSeq == 2
\* cycles the driver starts while its position is not RUNNING
MaxCycles == 2
\* the size of buffers[] of a port
MaxBuffers == 2
\* the cycles the clock of the driver is followed
MaxTicks == 4
\* the messages the client of an exported node handles
MaxRes == 4

(* ----------------------------- constants ------------------------------ *)

SPA_STATUS_OK == 0
SPA_STATUS_NEED_DATA == 1
SPA_STATUS_HAVE_DATA == 2

\* enum of the activation status (strings: the enum is declared outside
\* the files of this development)
NOT_TRIGGERED == "NOT_TRIGGERED"
TRIGGERED == "TRIGGERED"
AWAKE == "AWAKE"
FINISHED == "FINISHED"
ActivationStatus == {NOT_TRIGGERED, TRIGGERED, AWAKE, FINISHED}

\* node 1 is the node elected driver (master); the others follow it
Driver == 1
Followers == {2, 3}
Nodes == {Driver} \cup Followers

\* what spa_node_process of an implementation may return: a status, or a
\* negative errno (-EPIPE)
ProcStatus == {SPA_STATUS_OK, SPA_STATUS_NEED_DATA, SPA_STATUS_HAVE_DATA, -32}
\* the status an implementation passes to its ready callback
ReadyStatus == {SPA_STATUS_HAVE_DATA}

(* ------------------------------- state -------------------------------- *)

VARIABLES
    act,          \* node -> its activation record (shared memory)
    target_list,  \* node -> rt.target_list of the node object in the server
    on_loop,      \* node -> source.loop != NULL: the node is on the data loop
    exported,     \* node -> its implementation lives in a client process
    links,        \* exported node -> rt.target_list of the client's node object
    nmsg,         \* exported node -> set_activation messages its client has handled
    fd,           \* node -> the wake-fd of the node is readable
    rtwritefd,    \* exported node -> its rtwritefd was written
    now,          \* CLOCK_MONOTONIC
    clock_step,   \* resolution of the clock: what it advances between two reads
    busy,         \* node -> process calls that returned OK and owe a ready callback
    cpc,          \* exported node -> position of the client's data loop
    ctodo,        \* exported node -> targets its resume_node still has to visit
    cnsec,        \* exported node -> nsec read by its resume_node
    nproc,        \* history: node -> process calls since the last cycle start
    nsignal,      \* history: node -> signals by predecessors since its pending was reset
    incomplete,   \* history: the tick that started the cycle found the graph not finished
    log,          \* history: what the last handler did, in order
    node,         \* node -> the fields of struct pw_node the main loop works on
    work,         \* node -> impl->work, the work queue of the node
    plugin,       \* struct impl of a node implementation: its ports and their buffers
    node_data     \* struct node_data of the client of an exported node

\* what the handlers of the main loop work on
main == <<node, work, plugin, node_data>>

vars == <<act, target_list, on_loop, exported, links, nmsg, fd, rtwritefd, now, clock_step, busy,
          cpc, ctodo, cnsec, nproc, nsignal, incomplete, log, node, work, plugin,
          node_data>>

\* uint32_t values are held in two's complement: -1 stands for 0xffffffff
U32Dec(x) == IF x = -2147483647 - 1 THEN 2147483647 ELSE x - 1
U32Inc(x) == IF x = 2147483647 THEN -2147483647 - 1 ELSE x + 1
\* a <= b for two uint32_t
U32Le(a, b) == IF (a >= 0) = (b >= 0) THEN a <= b ELSE a >= 0
U32Max(a, b) == IF U32Le(a, b) THEN b ELSE a

\* the bytes of a uint32_t, least significant first, and back
U32Bytes(x) ==
    <<x % 256, (x \div 256) % 256, (x \div 65536) % 256, (x \div 16777216) % 256>>
U32OfBytes(b) ==
    b[1] + 256 * b[2] + 65536 * b[3] + 16777216 * (IF b[4] >= 128 THEN b[4] - 256 ELSE b[4])

RECURSIVE MulBytes(_, _, _)
\* the bytes of b * k + carry, for b given by its bytes: one more byte than b
MulBytes(b, k, carry) ==
    IF b = <<>> THEN <<carry % 256, carry \div 256>>
    ELSE <<(b[1] * k + carry) % 256>> \o MulBytes(Tail(b), k, (b[1] * k + carry) \div 256)

RECURSIVE DivBytes(_, _, _)
\* the bytes of the quotient of (rem, b) by d, for b given by its bytes
\* (long division from the most significant byte; d is below 2^23)
DivBytes(b, d, rem) ==
    IF b = <<>> THEN <<>>
    ELSE LET r == rem * 256 + b[Len(b)]
         IN  DivBytes(SubSeq(b, 1, Len(b) - 1), d, r % d) \o <<r \div d>>

\* a * k and a / d of two uint32_t: the product keeps its low 32 bits
U32Mul(a, k) == U32OfBytes(SubSeq(MulBytes(U32Bytes(a), k, 0), 1, 4))
U32Div(a, d) == U32OfBytes(DivBytes(U32Bytes(a), d, 0))

\* the bits of a uint32_t, bit 0 first, and back
U32Bits(x) == [i \in 0..31 |-> (U32Bytes(x)[(i \div 8) + 1] \div 2^(i % 8)) % 2]
ByteOfBits(b, j) ==
    b[8*j] + 2 * b[8*j+1] + 4 * b[8*j+2] + 8 * b[8*j+3] + 16 * b[8*j+4]
    + 32 * b[8*j+5] + 64 * b[8*j+6] + 128 * b[8*j+7]
U32OfBits(b) == U32OfBytes(<<ByteOfBits(b, 0), ByteOfBits(b, 1), ByteOfBits(b, 2),
                             ByteOfBits(b, 3)>>)
\* x >> k, a | b and a - b of uint32_t
U32Shr(x, k) ==
    LET bx == U32Bits(x)
    IN  U32OfBits([i \in 0..31 |-> IF i + k <= 31 THEN bx[i + k] ELSE 0])
U32Or(a, b) ==
    LET ba == U32Bits(a)
        bb == U32Bits(b)
    IN  U32OfBits([i \in 0..31 |-> IF ba[i] = 1 \/ bb[i] = 1 THEN 1 ELSE 0])
U32Sub(a, b) ==
    LET x == U32Bytes(a)
        y == U32Bytes(b)
        d1 == x[1] - y[1]
        d2 == x[2] - y[2] - (IF d1 < 0 THEN 1 ELSE 0)
        d3 == x[3] - y[3] - (IF d2 < 0 THEN 1 ELSE 0)
        d4 == x[4] - y[4] - (IF d3 < 0 THEN 1 ELSE 0)
    IN  U32OfBytes(<<d1 % 256, d2 % 256, d3 % 256, d4 % 256>>)

\* enum spa_io_position_state
SPA_IO_POSITION_STATE_STOPPED == 0
SPA_IO_POSITION_STATE_STARTING == 1
SPA_IO_POSITION_STATE_RUNNING == 2

\* the command slot of an activation (strings: the enum is declared outside
\* the files of this development)
PW_NODE_ACTIVATION_COMMAND_NONE == "NONE"
PW_NODE_ACTIVATION_COMMAND_START == "START"
PW_NODE_ACTIVATION_COMMAND_STOP == "STOP"

\* The times of the sync are counted in units of 10^6 ns, which keeps
\* 5 * SPA_NSEC_PER_SEC within the integers of the model checker.
SPA_NSEC_PER_SEC == 1000
DEFAULT_QUANTUM == 1024
\* the smallest integer of the model checker stands for INT64_MIN
INT64_MIN == 0 - 2147483647 - 1

\* struct spa_io_segment: start, position and the bar and video extras (a
\* value stands for the contents of the extra)
NewSegment == [start |-> 0, position |-> 0, bar |-> 0, video |-> 0]

\* reset_position: struct spa_io_position of a new node.  clock.position is
\* written by the implementation of the driver, which leaves it at 0 here;
\* clock.id is 0 as allocated.
NewPosition ==
    [state |-> SPA_IO_POSITION_STATE_STOPPED, offset |-> INT64_MIN,
     clock |-> [id |-> 0, position |-> 0, duration |-> DEFAULT_QUANTUM,
                rate_denom |-> 48000],
     segment0 |-> NewSegment]

\* struct pw_node_activation as allocated zeroed by pw_node_new.  cpu_load,
\* prev_signal_time (read by the cpu_load statistics only) and
\* state[0].status are not part of this state.  synced is history: the
\* cycles the position has been STARTING since START was last taken.
NewActivation ==
    [status |-> NOT_TRIGGERED, required |-> 0, pending |-> 0,
     signal_time |-> 0, awake_time |-> 0, finish_time |-> 0,
     xrun_count |-> 0, xrun_time |-> 0, xrun_delay |-> 0, max_delay |-> 0,
     pending_sync |-> FALSE, pending_new_pos |-> FALSE,
     command |-> PW_NODE_ACTIVATION_COMMAND_NONE, reposition_owner |-> 0,
     segment_owner |-> <<0, 0>>,
     sync_timeout |-> 5 * SPA_NSEC_PER_SEC, sync_left |-> 0,
     position |-> NewPosition, reposition |-> NewSegment,
     segment |-> [bar |-> 0, video |-> 0],
     synced |-> 0]

\* node->driver_node, node->driver and node->master
driver_node(n) == node[n].driver_node
is_driver(n) == node[n].driver
master(n) == node[n].master

\* struct pw_node_target: rt.target of a node, its rt.driver_target, or the
\* target a client keeps for a peer (struct link)
Target(kind, owner, a) == [kind |-> kind, owner |-> owner, activation |-> a]
NodeTarget(n) == Target("target", n, n)
DriverTarget(n) == Target("driver_target", n, driver_node(n))
LinkTarget(n, peer) == Target("link", n, peer)

\* the handlers work on a copy of the state they change
Cur == [act |-> act, fd |-> fd, now |-> now, busy |-> busy, nproc |-> nproc,
        nsignal |-> nsignal, incomplete |-> incomplete, rtwritefd |-> rtwritefd,
        cnsec |-> cnsec, log |-> <<>>]

\* an entry of the history of a handler: what was done to node n and by which
\* node; val is the pending counter of n at that moment, the status a
\* process call returned, or the delay of an xrun
Event(ev, n, from, to, val, by) ==
    [ev |-> ev, node |-> n, from |-> from, to |-> to, val |-> val, by |-> by]

\* a change of a target list of node n, and the thread that made it
ListEvent(op, n, thread) == Event(op, n, thread, "", 0, n)

\* spa_system_clock_gettime(CLOCK_MONOTONIC): clock_step passes between two
\* reads
gettime(s) == [s EXCEPT !.now = @ + clock_step]

\* Only the order of the timestamps matters: after a handler they are
\* renumbered 0, 1, 2 ... in their order (0 stays the value of a field that
\* was never written).
TimeFields == {"signal_time", "awake_time", "finish_time", "xrun_time"}
TimesOf(s) ==
    {0, s.now} \cup {s.act[n][f] : n \in Nodes, f \in TimeFields}
               \cup {s.cnsec[n] : n \in Nodes}
Rank(V, v) == Cardinality({u \in V : u < v})
Renumber(s) ==
    LET V == TimesOf(s)
    IN  [s EXCEPT !.now = Rank(V, s.now),
                  !.cnsec = [n \in Nodes |-> Rank(V, s.cnsec[n])],
                  !.act = [n \in Nodes |->
                      [s.act[n] EXCEPT !.signal_time = Rank(V, @),
                                       !.awake_time = Rank(V, @),
                                       !.finish_time = Rank(V, @),
                                       !.xrun_time = Rank(V, @)]]]

\* a store to activation->status
set_status(s, n, st, by) ==
    [s EXCEPT !.act[n].status = st,
              !.log = Append(@, Event("status", n, s.act[n].status, st,
                                      s.act[n].pending, by))]

\* pw_node_activation_state_dec(state, 1): atomic subtract, true when the
\* result is 0
state_dec(s, a) == [s EXCEPT !.act[a].pending = U32Dec(@)]
state_dec_zero(s, a) == U32Dec(s.act[a].pending) = 0

\* pw_node_activation_state_reset(state)
state_reset(s, a) == [s EXCEPT !.act[a].pending = s.act[a].required]

(* ------------------- the data loop of the server ---------------------- *)

RECURSIVE process_node(_, _, _)
RECURSIVE resume_targets(_, _, _, _, _)

\* slip: the node is stored FINISHED without its finish_time
resume_finish_untimed(s, n, nsec) == set_status(s, n, FINISHED, n)

\* resume_node, line 789-790: the node is finished at nsec
resume_finish(s, n, nsec) ==
    [set_status(s, n, FINISHED, n) EXCEPT !.act[n].finish_time = nsec]

\* resume_node, line 803-804: the target whose pending reached 0 is triggered
resume_trigger(s, t, nsec, by) ==
    [set_status(s, t.activation, TRIGGERED, by) EXCEPT
        !.act[t.activation].signal_time = nsec,
        !.nsignal[t.activation] = @ + 1,
        !.log = Append(@, Event("signal", t.activation, "", "",
                                s.act[t.activation].pending, by))]

\* slip: every target is signalled, whatever its decrement returned
resume_dec_signals_always(s, t) == TRUE

\* resume_node, line 802: the decrement decides whether the target is signalled
resume_dec_signals(s, t) == state_dec_zero(s, t.activation)

\* resume_node, line 802: node by decrements the pending counter of target t
resume_dec(s, t, by) ==
    [state_dec(s, t.activation) EXCEPT
        !.log = Append(@, Event("dec", t.activation, "", "", s.act[t.activation].pending, by))]

\* resume_node: finish the node and walk its target list
resume_node(s, n, st) ==
    LET s1 == gettime(s)
    IN  resume_targets(resume_finish(s1, n, s1.now), n, target_list[n], s1.now, st)

\* the loop of resume_node over the targets ts that are left; t->signal of a
\* target of the server is process_node, called inline
resume_targets(s, n, ts, nsec, st) ==
    IF ts = <<>> THEN s
    ELSE LET t == Head(ts)
             s1 == resume_dec(s, t, n)
             s2 == IF resume_dec_signals(s, t)
                   THEN process_node(resume_trigger(s1, t, nsec, n), t.activation, st)
                   ELSE s1
         IN  resume_targets(s2, n, Tail(ts), nsec, st)

\* a call of the process function of the implementation of n, returning status
impl_called(s, n, status) ==
    [s EXCEPT !.nproc[n] = @ + 1,
              !.log = Append(@, Event("process", n, "", "", status, n))]

\* spa_node_process in the server.  The representative of an exported node
\* wakes the client, whose process function runs there, and returns
\* SPA_STATUS_OK.
impl_process(s, n, st) ==
    IF exported[n]
    THEN [status |-> SPA_STATUS_OK, s |-> [s EXCEPT !.fd[n] = TRUE]]
    ELSE [status |-> st[n], s |-> impl_called(s, n, st[n])]

\* slip: the node is woken without its status being stored
process_awake_silent(s, n) ==
    [s EXCEPT !.act[n].awake_time = s.now,
              !.act[n].pending_sync = FALSE,
              !.act[n].pending_new_pos = FALSE]

\* process_node, line 832-840
process_awake(s, n) ==
    [set_status(s, n, AWAKE, n) EXCEPT !.act[n].awake_time = s.now,
                                       !.act[n].pending_sync = FALSE,
                                       !.act[n].pending_new_pos = FALSE]

\* slip: the time the cycle started is not moved to signal_time
process_driver_finish_keeps_signal(s, n, t) ==
    [set_status(s, n, FINISHED, n) EXCEPT !.act[n].finish_time = t]

\* process_node, line 853-857: the driver closes the cycle
process_driver_finish(s, n, t) ==
    [set_status(s, n, FINISHED, n) EXCEPT
        !.act[n].signal_time = s.act[n].finish_time,
        !.act[n].finish_time = t]

\* slip: a negative result is taken for an asynchronous continue
process_is_async_or_error(status) == status <= SPA_STATUS_OK

\* process_node, line 870: a node that returned SPA_STATUS_OK continues
\* asynchronously and resumes its targets from its ready callback
process_is_async(status) == status = SPA_STATUS_OK

\* the implementation owes one more ready callback
owe_ready(s, n) == [s EXCEPT !.busy[n] = IF @ = MaxAsync THEN @ ELSE @ + 1]

process_node(s, n, st) ==
    LET s1 == gettime(s)
        r  == impl_process(process_awake(s1, n), n, st)
    IN  IF n = driver_node(n) /\ ~exported[n]
        THEN LET s3 == gettime(r.s) IN process_driver_finish(s3, n, s3.now)
        ELSE IF process_is_async(r.status)
        THEN IF exported[n] THEN r.s ELSE owe_ready(r.s, n)
        ELSE resume_node(r.s, n, st)

SYNC_CHECK == 0
SYNC_START == 1
SYNC_STOP == 2

\* the cycles the sync may take: sync_timeout in cycles of the clock
sync_cycles(a) ==
    a.sync_timeout \div ((a.position.clock.duration * SPA_NSEC_PER_SEC)
                         \div a.position.clock.rate_denom)

\* uint64_t values are held in two's complement: -1 stands for 2^64 - 1
U64Dec(x) == x - 1

\* a cycle start that reads the command and leaves it in the slot
check_updates_kept(s, n) ==
    LET a == s.act[n]
        s3 == CASE a.command = PW_NODE_ACTIVATION_COMMAND_STOP ->
                     [s EXCEPT !.act[n].position.state = SPA_IO_POSITION_STATE_STOPPED,
                               !.log = Append(@, Event("command", n, a.command,
                                                       SPA_IO_POSITION_STATE_STOPPED,
                                                       a.sync_left, n))]
                [] a.command = PW_NODE_ACTIVATION_COMMAND_START ->
                     [s EXCEPT !.act[n].position.state = SPA_IO_POSITION_STATE_STARTING,
                               !.act[n].sync_left = sync_cycles(a),
                               !.log = Append(@, Event("command", n, a.command,
                                                       SPA_IO_POSITION_STATE_STARTING,
                                                       sync_cycles(a), n))]
                [] OTHER -> s
    IN  [s |-> s3,
         res |-> IF a.command = PW_NODE_ACTIVATION_COMMAND_START THEN SYNC_START
                 ELSE IF a.command = PW_NODE_ACTIVATION_COMMAND_STOP THEN SYNC_STOP
                 ELSE SYNC_CHECK,
         reposition_owner |-> 0]
\* check_updates: the command and the reposition owner are taken
check_updates(s, n) ==
    LET a == s.act[n]
        s1 == IF a.position.offset = INT64_MIN
              THEN [s EXCEPT !.act[n].position.offset = a.position.clock.position]
              ELSE s
        s2 == [s1 EXCEPT !.act[n].command = PW_NODE_ACTIVATION_COMMAND_NONE,
                         !.act[n].reposition_owner = 0]
        s3 == CASE a.command = PW_NODE_ACTIVATION_COMMAND_STOP ->
                     [s2 EXCEPT !.act[n].position.state = SPA_IO_POSITION_STATE_STOPPED,
                                !.log = Append(@, Event("command", n, a.command,
                                                        SPA_IO_POSITION_STATE_STOPPED,
                                                        a.sync_left, n))]
                [] a.command = PW_NODE_ACTIVATION_COMMAND_START ->
                     [s2 EXCEPT !.act[n].position.state = SPA_IO_POSITION_STATE_STARTING,
                                !.act[n].sync_left = sync_cycles(a),
                                !.act[n].synced = 0 - 1,
                                !.log = Append(@, Event("command", n, a.command,
                                                        SPA_IO_POSITION_STATE_STARTING,
                                                        sync_cycles(a), n))]
                [] OTHER -> s2
        res == IF a.reposition_owner # 0 \/ a.command = PW_NODE_ACTIVATION_COMMAND_START
               THEN SYNC_START
               ELSE IF a.command = PW_NODE_ACTIVATION_COMMAND_STOP THEN SYNC_STOP
               ELSE SYNC_CHECK
    IN  [s |-> s3, res |-> res, reposition_owner |-> a.reposition_owner]

\* do_reposition, line 1260-1261: a reposition without a start starts now
do_reposition_start(src, pos) ==
    IF src.start = 0 THEN pos.clock.position - pos.offset ELSE src.start

\* do_reposition: the segment staged by node is copied to the position of
\* the driver, and a running transport syncs again
do_reposition(s, driver, n) ==
    LET a == s.act[driver]
        src == s.act[n].reposition
        s1 == [s EXCEPT !.act[driver].position.segment0 =
                           [src EXCEPT !.start = do_reposition_start(src, a.position)],
                        !.log = Append(@, Event("reposition", driver, "", "", n, driver))]
    IN  IF a.position.state = SPA_IO_POSITION_STATE_RUNNING
        THEN [s1 EXCEPT !.act[driver].position.state = SPA_IO_POSITION_STATE_STARTING,
                        !.act[driver].sync_left = sync_cycles(a),
                        !.act[driver].synced = 0 - 1]
        ELSE s1

\* a cycle start that moves the offset whatever the state is
update_offset_always(s, n) ==
    [s EXCEPT !.act[n].position.offset = @ + s.act[n].position.clock.duration]
\* update_position, line 1286-1287: the offset follows the clock while the
\* position is not RUNNING
update_offset(s, n) ==
    IF s.act[n].position.state # SPA_IO_POSITION_STATE_RUNNING
    THEN [s EXCEPT !.act[n].position.offset = @ + s.act[n].position.clock.duration]
    ELSE s

\* the sync of the position has ended
running(s, n, timeout) ==
    LET l == IF timeout THEN Append(s.log, Event("sync_timeout", n, "", "", 0, n))
             ELSE s.log
    IN  [s EXCEPT !.act[n].position.state = SPA_IO_POSITION_STATE_RUNNING,
                  !.log = Append(l, Event("running", n, SPA_IO_POSITION_STATE_STARTING,
                                          SPA_IO_POSITION_STATE_RUNNING,
                                          s.act[n].sync_left, n))]

\* a cycle start that ends the sync although a target is not ready
update_position_eager(s, n, all_ready) ==
    LET a == s.act[n]
        s2 == IF a.position.state = SPA_IO_POSITION_STATE_STARTING
              THEN running(s, n, FALSE) ELSE s
    IN  update_offset(s2, n)
\* update_position: the sync ends when every target is ready or when
\* sync_left reaches 0
update_position(s, n, all_ready) ==
    LET a == s.act[n]
        starting == a.position.state = SPA_IO_POSITION_STATE_STARTING
        s1 == IF starting /\ ~all_ready
              THEN [s EXCEPT !.act[n].sync_left = U64Dec(@)] ELSE s
        timeout == starting /\ ~all_ready /\ s1.act[n].sync_left = 0
        s2 == IF starting /\ (all_ready \/ timeout) THEN running(s1, n, timeout) ELSE s1
        s3 == [s2 EXCEPT !.act[n].synced =
                  IF s2.act[n].position.state = SPA_IO_POSITION_STATE_STARTING
                  THEN @ + 1 ELSE 0]
    IN  update_offset(s3, n)

\* node_ready, line 1331-1335: the extras staged by their owners are copied
ready_segment(s, driver, ta, owner) ==
    [s EXCEPT !.act[driver].position.segment0.bar =
                  IF ta = owner[1] THEN s.act[ta].segment.bar ELSE @,
              !.act[driver].position.segment0.video =
                  IF ta = owner[2] THEN s.act[ta].segment.video ELSE @]

RECURSIVE ready_reset(_, _, _, _, _, _)
\* node_ready, line 1318-1344: every target of the driver starts a new cycle.
\* The node of a target has the activation of the target, and the id of a
\* node is its number.
ready_reset(s, driver, ts, owner, update_sync, target_sync) ==
    IF ts = <<>> THEN s
    ELSE LET a == Head(ts).activation
             s1 == state_reset(set_status(s, a, NOT_TRIGGERED, driver), a)
             s2 == ready_segment([s1 EXCEPT !.nsignal[a] = 0], driver, a, owner)
             s3 == IF update_sync
                   THEN [s2 EXCEPT !.act[a].pending_sync = target_sync,
                                   !.act[a].pending_new_pos = target_sync]
                   ELSE s2
         IN  ready_reset(s3, driver, Tail(ts), owner, update_sync, target_sync)

\* slip: the reposition of any target is applied
ready_reposition_any(s, driver, ts, owner) ==
    IF owner # 0 /\ ts # <<>> THEN do_reposition(s, driver, ts[Len(ts)].activation) ELSE s

\* node_ready, line 1326-1328 and 1346-1347: the reposition of the target
\* that owns it is applied
ready_reposition(s, driver, ts, owner) ==
    IF owner # 0 /\ \E i \in DOMAIN ts : ts[i].activation = owner
    THEN do_reposition(s, driver, owner)
    ELSE s

\* node_ready, line 1311-1349: the position of the cycle
ready_position(s, n, ts) ==
    LET u == check_updates(s, n)
        owner == u.s.act[n].segment_owner
        update_sync == u.res # SYNC_CHECK
        target_sync == u.res = SYNC_START
        all_ready == /\ u.res = SYNC_CHECK
                     /\ \A i \in DOMAIN ts : ~u.s.act[ts[i].activation].pending_sync
        s1 == ready_reset(u.s, n, ts, owner, update_sync, target_sync)
    IN  update_position(ready_reposition(s1, n, ts, u.reposition_owner), n, all_ready)

\* node_ready, line 1305: the driver finds the previous cycle unfinished
ready_not_finished(s, n) == s.act[n].pending # 0

\* slip: the tick that finds the graph unfinished counts an xrun itself
ready_resignal_counts(s, n, st) ==
    process_node([s EXCEPT !.act[n].xrun_count = U32Inc(@),
                           !.log = Append(@, Event("not_finished", n, "", "",
                                                   s.act[n].pending, n))],
                 n, st)

\* node_ready, line 1305-1309: the unfinished graph is reported and the
\* driver signals itself
ready_resignal(s, n, st) ==
    process_node([s EXCEPT !.log = Append(@, Event("not_finished", n, "", "",
                                                   s.act[n].pending, n))],
                 n, st)

\* node_ready, line 1300: the driver enters its ready callback, which starts
\* a cycle; the history of the cycle starts afresh
cycle_start(s, n) ==
    [s EXCEPT !.nproc = [m \in Nodes |-> 0],
              !.incomplete = ready_not_finished(s, n),
              !.log = Append(@, Event("cycle_start", n, "", "", s.act[n].pending, n))]

\* slip: the ready callback of any node starts a cycle
node_ready_any(s, n, status, st) ==
    LET s0 == cycle_start(s, n)
        s2 == IF ready_not_finished(s, n) THEN ready_resignal(s0, n, st) ELSE s0
        s1 == ready_position(s2, n, target_list[n])
    IN  IF is_driver(n) /\ ~master(n) THEN s1 ELSE resume_node(s1, n, st)

\* node_ready of node.c, the ready callback of a node of the server
node_ready(s, n, status, st) ==
    LET s1 == IF n = driver_node(n)
              THEN LET s0 == cycle_start(s, n)
                       s2 == IF ready_not_finished(s, n)
                             THEN ready_resignal(s0, n, st) ELSE s0
                   IN  ready_position(s2, n, target_list[n])
              ELSE s
    IN  IF is_driver(n) /\ ~master(n) THEN s1 ELSE resume_node(s1, n, st)

\* node_xrun, the xrun callback
node_xrun(s, n, trigger, delay) ==
    [s EXCEPT !.act[n].xrun_count = U32Inc(@),
              !.act[n].xrun_time = trigger,
              !.act[n].xrun_delay = delay,
              !.act[n].max_delay = U32Max(@, delay),
              !.log = Append(@, Event("xrun", n, "", "", delay, n))]

\* add_node: the node and its driver signal each other
add_node(tl, a, n, driver) ==
    [tl |-> [tl EXCEPT ![n] = Append(@, Target("driver_target", n, driver)),
                       ![driver] = Append(@, NodeTarget(n))],
     act |-> [a EXCEPT ![driver].required = U32Inc(@),
                       ![n].required = U32Inc(@)]]

Without(seq, x) == SelectSeq(seq, LAMBDA y : y # x)

\* remove_node
remove_node(tl, a, n) ==
    [tl |-> [tl EXCEPT ![n] = Without(@, DriverTarget(n)),
                       ![driver_node(n)] = Without(@, NodeTarget(n))],
     act |-> [a EXCEPT ![driver_node(n)].required = U32Dec(@),
                       ![n].required = U32Dec(@)]]

(* ----------------- the data loop of an exported node ------------------ *)

ENOENT == 2

\* find_activation: the index of the first link to the peer, 0 for NULL
find_activation(ls, peer) ==
    IF \E i \in DOMAIN ls : ls[i].activation = peer
    THEN CHOOSE i \in DOMAIN ls : /\ ls[i].activation = peer
                                  /\ \A j \in DOMAIN ls : ls[j].activation = peer => i <= j
    ELSE 0

\* clear_link, line 118: the link is taken off the target list
clear_link(ls, i) == [j \in 1..(Len(ls) - 1) |-> IF j < i THEN ls[j] ELSE ls[j + 1]]

\* slip: the link of a peer is cleared whether or not there is one, and
\* the node's own id is taken for a peer
set_activation_unchecked(ls, n, peer, valid) ==
    IF valid THEN [links |-> Append(ls, Target("link", n, peer)), res |-> 0]
    ELSE [links |-> IF find_activation(ls, peer) = 0 THEN ls
                    ELSE clear_link(ls, find_activation(ls, peer)),
          res |-> 0]

\* client_node_set_activation for the client of node n, whose links are ls:
\* the message names the node itself, brings a memory that was mapped, or
\* brings none
client_node_set_activation(ls, n, peer, valid) ==
    IF peer = n THEN [links |-> ls, res |-> 0]
    ELSE IF valid THEN [links |-> Append(ls, Target("link", n, peer)), res |-> 0]
    ELSE IF find_activation(ls, peer) = 0 THEN [links |-> ls, res |-> 0 - ENOENT]
    ELSE [links |-> clear_link(ls, find_activation(ls, peer)), res |-> 0]

\* link_signal_func: the signal of the target a client keeps for a peer.
\* The signalfd of the link is the wake-fd of the peer: the write of the
\* value 1 adds 1 to its counter, which makes it readable.
link_signal_func(s, t, by) ==
    [set_status(s, t.activation, TRIGGERED, by) EXCEPT
        !.act[t.activation].signal_time = s.now,
        !.fd[t.activation] = TRUE]

\* node_ready of remote-node.c, the ready callback of an exported node
remote_node_ready(s, n) ==
    [set_status(s, n, TRIGGERED, n) EXCEPT
        !.act[n].signal_time = s.now,
        !.rtwritefd[n] = TRUE]

(* --------------------------- the main loop ---------------------------- *)

\* enum pw_node_state
PW_NODE_STATE_ERROR == "ERROR"
PW_NODE_STATE_CREATING == "CREATING"
PW_NODE_STATE_SUSPENDED == "SUSPENDED"
PW_NODE_STATE_IDLE == "IDLE"
PW_NODE_STATE_RUNNING == "RUNNING"
NodeStates == {PW_NODE_STATE_ERROR, PW_NODE_STATE_CREATING, PW_NODE_STATE_SUSPENDED,
               PW_NODE_STATE_IDLE, PW_NODE_STATE_RUNNING}

\* the value of a state in the enum: pause_node and start_node compare states
state_value(st) ==
    CASE st = PW_NODE_STATE_ERROR -> 0 - 1
      [] st = PW_NODE_STATE_CREATING -> 0
      [] st = PW_NODE_STATE_SUSPENDED -> 1
      [] st = PW_NODE_STATE_IDLE -> 2
      [] st = PW_NODE_STATE_RUNNING -> 3

\* the results of the methods of an implementation: 0, a negative errno, or
\* a sequence number marked asynchronous
SPA_ASYNC_BIT == 1073741824
SPA_RESULT_IS_ERROR(res) == res < 0
SPA_RESULT_IS_ASYNC(res) == res >= SPA_ASYNC_BIT
SPA_RESULT_ASYNC_SEQ(res) == res - SPA_ASYNC_BIT
SPA_RESULT_RETURN_ASYNC(seq) == SPA_ASYNC_BIT + seq
\* 0xffffffff
SPA_ID_INVALID == 0 - 1

\* the fds and the memory a message brings: message k brings fd k and the
\* memory that is mapped as map k
Res == 1..MaxRes

\* struct node_data as node_init of remote-node.c leaves it.  links is the
\* array of struct link, target_list the indices of the links that are in
\* rt.target_list of the node.  History: next is the number of the next
\* message, made the links that were ever added, freed and closed count the
\* pw_memmap_free of each map and the close of each fd.
NewNodeData ==
    [remote_id |-> SPA_ID_INVALID, have_transport |-> FALSE, links |-> <<>>,
     target_list |-> <<>>, activation |-> 0, rtwritefd |-> 0, destroyed |-> FALSE,
     next |-> 1, made |-> {}, freed |-> [r \in Res |-> 0], closed |-> [r \in Res |-> 0],
     res |-> 0]

EIO == 5
EEXIST == 17

\* what the handlers of the main loop work on: the node objects, their work
\* queues, and the lists of the data loop, which they change through
\* pw_loop_invoke.  The caller blocks until the data loop has run the invoked
\* function; res is the result of the last call.
Main == [node |-> node, work |-> work, target_list |-> target_list, act |-> act,
         on_loop |-> on_loop, res |-> 0, log |-> <<>>]

\* a change of info.state, and a command sent to the implementation with
\* its result
StateEvent(n, old, state) == Event("state", n, old, state, 0, n)
CommandEvent(n, command, res) == Event("command", n, "", command, res, n)

\* the ports of a node, an input port and an output port, in the order in
\* which suspend_node visits them
Ports == {"in", "out"}
PortOrder == <<"in", "out">>
PW_PORT_STATE_CONFIGURE == "CONFIGURE"
PW_PORT_STATE_READY == "READY"
\* a port that has no format
NewPort == [state |-> PW_PORT_STATE_CONFIGURE, format |-> FALSE]

\* struct pw_node as pw_node_new leaves it
NewNode(n) ==
    [state |-> PW_NODE_STATE_CREATING, error |-> FALSE, active |-> FALSE,
     pause_on_idle |-> TRUE, driver |-> FALSE, master |-> TRUE, driver_node |-> n,
     slave_list |-> {n}, freed |-> FALSE, registered |-> FALSE, quantum_size |-> 0,
     n_used_output_links |-> 0, n_ready_output_links |-> 0,
     n_used_input_links |-> 0, n_ready_input_links |-> 0,
     ports |-> [p \in Ports |-> NewPort]]

\* the node after it was registered and the graph was recalculated: node
\* Driver has the property node.driver and was elected, pw_node_set_driver
\* made the others follow it
ElectedNode(nd, n) ==
    [nd EXCEPT !.driver = n = Driver, !.master = n = Driver, !.driver_node = Driver,
               !.slave_list = IF n = Driver THEN Nodes ELSE {}, !.registered = TRUE]

\* a node that was activated and started with every link ready
StartedNode(n) ==
    [ElectedNode(NewNode(n), n) EXCEPT !.state = PW_NODE_STATE_RUNNING, !.active = TRUE]

\* do_node_add and do_node_remove, invoked on the data loop
do_node_add(m, n) ==
    IF m.on_loop[n] THEN m
    ELSE LET r == add_node(m.target_list, m.act, n, m.node[n].driver_node)
         IN  [m EXCEPT !.on_loop[n] = TRUE, !.target_list = r.tl, !.act = r.act,
                       !.log = Append(@, ListEvent("list_add", n, "data_loop"))]

do_node_remove(m, n) ==
    IF ~m.on_loop[n] THEN m
    ELSE LET r == remove_node(m.target_list, m.act, n)
         IN  [m EXCEPT !.on_loop[n] = FALSE, !.target_list = r.tl, !.act = r.act,
                       !.log = Append(@, ListEvent("list_remove", n, "data_loop"))]

\* spa_node_send_command: the implementation answers res
send_command(m, n, command, res) ==
    [m EXCEPT !.res = res, !.log = Append(@, CommandEvent(n, command, res))]

\* slip: the node is paused where it is
pause_node_in_place(m, n, r) == send_command(m, n, "Pause", r.pause)

\* pause_node
pause_node(m, n, r) ==
    IF state_value(m.node[n].state) <= state_value(PW_NODE_STATE_IDLE)
       /\ m.node[n].pause_on_idle
    THEN [m EXCEPT !.res = 0]
    ELSE send_command(do_node_remove(m, n), n, "Pause", r.pause)

\* start_node, line 201: the start condition on the links
start_links_ready(nd) ==
    /\ nd.n_ready_output_links = nd.n_used_output_links
    /\ nd.n_ready_input_links = nd.n_used_input_links

\* start_node
start_node(m, n, r) ==
    IF state_value(m.node[n].state) >= state_value(PW_NODE_STATE_RUNNING)
    THEN [m EXCEPT !.res = 0]
    ELSE IF ~start_links_ready(m.node[n])
    THEN [m EXCEPT !.res = 0]
    ELSE send_command(m, n, "Start", r.start)

\* node_update_state
node_update_state(m, n, state, error) ==
    LET old == m.node[n].state
    IN  IF old = state THEN m
        ELSE LET m1 == [m EXCEPT !.node[n].error = error,
                                 !.node[n].state = state,
                                 !.log = Append(@, StateEvent(n, old, state))]
             IN  IF state = PW_NODE_STATE_RUNNING THEN do_node_add(m1, n) ELSE m1

\* pw_port_set_param(p, SPA_PARAM_Format, 0, NULL): the implementation
\* forgets the format of the port when it answers 0; it keeps the format
\* when it fails, and until it completes when it answers asynchronously
pw_port_set_param(m, n, p, res) ==
    [m EXCEPT !.res = res,
              !.node[n].ports[p].format = IF res = 0 THEN FALSE ELSE @,
              !.node[n].ports[p].state = IF res = 0 THEN PW_PORT_STATE_CONFIGURE ELSE @]

\* suspend_node, line 332-346: the format of each port is unset, and the
\* state of the port is forced
RECURSIVE suspend_ports(_, _, _, _)
suspend_ports(m, n, ps, r) ==
    IF ps = <<>> THEN m
    ELSE LET m1 == pw_port_set_param(m, n, Head(ps), r.format[Head(ps)])
         IN  suspend_ports([m1 EXCEPT !.node[n].ports[Head(ps)].state =
                                          PW_PORT_STATE_CONFIGURE],
                           n, Tail(ps), r)

\* suspend_node
suspend_node(m, n, r) ==
    LET m1 == pause_node([m EXCEPT !.log = Append(@, Event("suspend", n, "", "", 0, n))],
                         n, r)
        m2 == suspend_ports([m1 EXCEPT !.res = 0], n, PortOrder, r)
    IN  node_update_state(m2, n, PW_NODE_STATE_SUSPENDED, FALSE)

\* ATOMIC_CAS(a->segment_owner[i], old, new)
segment_owner_cas(owner, i, old, new) ==
    IF owner[i] = old THEN [owner EXCEPT ![i] = new] ELSE owner

\* remove_segment_master
remove_segment_master(m, driver, node_id) ==
    [m EXCEPT !.act[driver].segment_owner =
        segment_owner_cas(segment_owner_cas(@, 1, node_id, 0), 2, node_id, 0)]

\* slip: the node is added to the new driver and stays with the old one
do_move_nodes_added(m, n, driver) ==
    IF m.on_loop[n]
    THEN LET a == add_node(m.target_list, m.act, n, driver)
         IN  [m EXCEPT !.target_list = a.tl, !.act = a.act,
                       !.log = Append(@, ListEvent("list_add", n, "data_loop"))]
    ELSE m
\* do_move_nodes, invoked on the data loop: remove_node takes the node from
\* the driver kept in rt.driver_target, the one it had before the handler
do_move_nodes(m, n, driver) ==
    IF m.on_loop[n]
    THEN LET r == remove_node(m.target_list, m.act, n)
             a == add_node(r.tl, r.act, n, driver)
         IN  [m EXCEPT !.target_list = a.tl, !.act = a.act,
                       !.log = @ \o <<ListEvent("list_remove", n, "data_loop"),
                                      ListEvent("list_add", n, "data_loop")>>]
    ELSE m

\* spa_list_remove(&node->slave_link)
slave_link_remove(m, n) ==
    [m EXCEPT !.node = [l \in Nodes |-> [m.node[l] EXCEPT !.slave_list = @ \ {n}]]]

\* slip: the node is moved to the lists of the driver and keeps its
\* driver_node
pw_node_set_driver_stale(m, n, driver0) ==
    LET driver == IF driver0 = 0 THEN n ELSE driver0
        old == m.node[n].driver_node
        m1 == [slave_link_remove(m, n) EXCEPT !.node[driver].slave_list = @ \cup {n},
                                              !.res = 0]
    IN  IF old = driver THEN m1
        ELSE do_move_nodes(remove_segment_master(m1, old, n), n, driver)
\* pw_node_set_driver; driver 0 stands for NULL
pw_node_set_driver(m, n, driver0) ==
    LET driver == IF driver0 = 0 THEN n ELSE driver0
        old == m.node[n].driver_node
        m1 == [slave_link_remove(m, n) EXCEPT !.node[driver].slave_list = @ \cup {n},
                                              !.res = 0]
    IN  IF old = driver THEN m1
        ELSE LET m2 == remove_segment_master(m1, old, n)
                 m3 == [m2 EXCEPT !.node[n].master = m2.node[n].driver /\ driver = n,
                                  !.node[n].driver_node = driver]
             IN  do_move_nodes(m3, n, driver)

\* flp2: the highest bit of x that is set
flp2(x) ==
    LET x1 == U32Or(x, U32Shr(x, 1))
        x2 == U32Or(x1, U32Shr(x1, 2))
        x4 == U32Or(x2, U32Shr(x2, 4))
        x8 == U32Or(x4, U32Shr(x4, 8))
        x16 == U32Or(x8, U32Shr(x8, 16))
    IN  U32Sub(x16, U32Shr(x16, 1))

\* the properties of a node that check_properties reads: node.driver (FALSE
\* when absent), node.pause-on-idle (TRUE when absent) and node.latency, which
\* is <<num, denom>> when sscanf reads two numbers and <<>> otherwise
NoLatency == <<>>

\* check_properties, line 737-751: the quantum of a latency
quantum_of(latency) == flp2(U32Div(U32Mul(latency[1], 48000), latency[2]))

\* check_properties; the latency it reads and pw_core_recalc_graph are
\* recorded as events
check_properties(m, n, p) ==
    LET m1 == [m EXCEPT !.node[n].pause_on_idle = p.pause_on_idle,
                        !.node[n].driver = p.driver]
        m2 == [m1 EXCEPT !.log = Append(@, Event("latency", n, p.latency[1],
                                                 p.latency[2], 0, n))]
        quantum_size == quantum_of(p.latency)
    IN  IF p.latency = NoLatency THEN m1
        ELSE IF p.latency[2] = 0 \/ quantum_size = m.node[n].quantum_size THEN m2
        ELSE [m2 EXCEPT !.node[n].quantum_size = quantum_size,
                        !.log = IF m.node[n].active
                                THEN Append(@, Event("recalc", n, "", "", 0, n))
                                ELSE @]

\* pw_node_new, line 1005-1013: the properties the node is created with are
\* checked, then the node is its own driver and master
pw_node_new(n, p) ==
    LET m == check_properties([node |-> [l \in {n} |-> NewNode(n)], log |-> <<>>], n, p)
    IN  [m.node[n] EXCEPT !.driver_node = n, !.slave_list = {n}, !.master = TRUE]

\* pw_node_register, line 588-591: the clock of the node gets the id of the
\* node; pw_node_initialized follows
pw_node_register(m, n) ==
    IF m.node[n].registered THEN [m EXCEPT !.res = 0 - EEXIST]
    ELSE node_update_state([m EXCEPT !.node[n].registered = TRUE,
                                     !.act[n].position.clock.id = n],
                           n, PW_NODE_STATE_SUSPENDED, FALSE)

RECURSIVE reslave(_, _)
\* pw_node_destroy, line 1479-1482: every follower of the node gets itself
\* as its driver
reslave(m, n) ==
    IF m.node[n].slave_list = {} THEN m
    ELSE LET slave == CHOOSE x \in m.node[n].slave_list :
                          \A y \in m.node[n].slave_list : x <= y
         IN  reslave(pw_node_set_driver(m, slave, 0), n)

\* pw_node_destroy: the ports, the work queue and the node are freed
pw_node_destroy(m, n, r) ==
    LET m1 == suspend_node([m EXCEPT !.node[n].active = FALSE,
                                     !.log = Append(@, Event("destroy", n, "", "", 0, n))],
                           n, r)
        m2 == remove_segment_master(slave_link_remove(m1, n), m1.node[n].driver_node, n)
        m3 == reslave(m2, n)
    IN  [m3 EXCEPT !.work[n] = <<>>, !.node[n].freed = TRUE]

\* history of a request: the state of the node when the request was made,
\* whether it was active, the sequence number of its asynchronous result,
\* and the commands sent
Sent(l, command) == \E i \in DOMAIN l : l[i].ev = "command" /\ l[i].to = command
Request(m, n) ==
    [state |-> m.node[n].state, active |-> m.node[n].active,
     seq |-> IF SPA_RESULT_IS_ASYNC(m.res) THEN SPA_RESULT_ASYNC_SEQ(m.res)
             ELSE SPA_ID_INVALID,
     start |-> Sent(m.log, "Start"), pause |-> Sent(m.log, "Pause")]

\* pw_work_queue_add: an item with an asynchronous result waits for its
\* sequence number, another one is run when the loop is idle
pw_work_queue_add(m, n, res, data) ==
    [m EXCEPT !.work[n] = Append(@, [seq |-> IF SPA_RESULT_IS_ASYNC(res)
                                             THEN SPA_RESULT_ASYNC_SEQ(res)
                                             ELSE SPA_ID_INVALID,
                                     res |-> res, data |-> data, hist |-> Request(m, n)])]

\* pw_work_queue_complete: the items waiting for seq get their result
pw_work_queue_complete(m, n, seq, res) ==
    [m EXCEPT !.work[n] = [i \in DOMAIN @ |->
                              IF @[i].seq = seq
                              THEN [@[i] EXCEPT !.seq = SPA_ID_INVALID, !.res = res]
                              ELSE @[i]]]

\* slip: a result completes whatever the node waits for
node_result_unmatched(m, n, seq, res) ==
    [m EXCEPT !.work[n] = [i \in DOMAIN @ |->
                              [@[i] EXCEPT !.seq = SPA_ID_INVALID, !.res = res]],
              !.log = Append(@, Event("result", n, "", "", seq, n))]

\* node_result
node_result(m, n, seq, res) ==
    LET m1 == [m EXCEPT !.log = Append(@, Event("result", n, "", "", seq, n))]
    IN  IF SPA_RESULT_IS_ASYNC(seq)
        THEN pw_work_queue_complete(m1, n, SPA_RESULT_ASYNC_SEQ(seq), res)
        ELSE m1

\* spa_node_sync: the implementation will emit a result with the sequence
\* number it is given
spa_node_sync(res) == res

\* on_state_complete
on_state_complete(m, n, data, res) ==
    IF SPA_RESULT_IS_ERROR(res)
    THEN node_update_state(m, n, PW_NODE_STATE_ERROR, TRUE)
    ELSE node_update_state(m, n, data, FALSE)

\* the work queue when the loop is idle: the items that do not wait are
\* taken off in order and their function is called
RECURSIVE process_work_queue(_, _, _)
process_work_queue(m, n, items) ==
    IF items = <<>> THEN m
    ELSE LET item == Head(items)
         IN  IF item.seq # SPA_ID_INVALID
             THEN process_work_queue([m EXCEPT !.work[n] = Append(@, item)], n, Tail(items))
             ELSE process_work_queue(on_state_complete(m, n, item.data, item.res), n,
                                     Tail(items))

\* slip: a request for CREATING is accepted
set_state_creating_accepted(m) == [m EXCEPT !.res = 0]

\* pw_node_set_state, line 1751: a request for CREATING
set_state_creating(m) == [m EXCEPT !.res = 0 - EIO]

\* pw_node_set_state, line 1750-1772: what is done for the requested state
set_state_request(m, n, state, r) ==
    CASE state = PW_NODE_STATE_CREATING -> set_state_creating(m)
      [] state = PW_NODE_STATE_SUSPENDED -> suspend_node(m, n, r)
      [] state = PW_NODE_STATE_IDLE ->
            IF m.node[n].active /\ m.node[n].pause_on_idle THEN pause_node(m, n, r)
            ELSE [m EXCEPT !.res = 0]
      [] state = PW_NODE_STATE_RUNNING ->
            IF m.node[n].active THEN start_node(m, n, r) ELSE [m EXCEPT !.res = 0]
      [] state = PW_NODE_STATE_ERROR -> [m EXCEPT !.res = 0]

\* pw_node_set_state
pw_node_set_state(m, n, state, r) ==
    IF m.node[n].state = state THEN [m EXCEPT !.res = 0]
    ELSE LET m1 == set_state_request(m, n, state, r)
         IN  IF SPA_RESULT_IS_ERROR(m1.res) THEN m1
             ELSE pw_work_queue_add(m1, n,
                                    IF SPA_RESULT_IS_ASYNC(m1.res) THEN spa_node_sync(m1.res)
                                    ELSE m1.res,
                                    state)

\* pw_node_set_active
pw_node_set_active(m, n, active, r) ==
    IF m.node[n].active = active THEN m
    ELSE LET m1 == IF ~active THEN pw_node_set_state(m, n, PW_NODE_STATE_IDLE, r) ELSE m
         IN  [m1 EXCEPT !.node[n].active = active, !.res = 0]

ENOTSUP == 95
\* the commands of the control channel
NodeCommands == {"Start", "Pause", "Suspend"}

\* client_node_command of remote-node.c, for the node object n of the client:
\* the state it requests of the node, and the handler, whose answer and
\* pw_proxy_error are recorded
command_state(command) ==
    CASE command = "Pause" -> PW_NODE_STATE_IDLE
      [] command = "Start" -> PW_NODE_STATE_RUNNING
      [] OTHER -> ""
client_node_command(m, n, command, r) ==
    LET m1 == IF command_state(command) # ""
              THEN pw_node_set_state(m, n, command_state(command), r)
              ELSE [m EXCEPT !.res = 0 - ENOTSUP]
        m2 == [m1 EXCEPT !.log = Append(@, Event("node_command", n, command_state(command),
                                                 command, m1.res, n))]
    IN  IF m1.res < 0
        THEN [m2 EXCEPT !.log = Append(@, Event("proxy_error", n, "", command, m1.res, n))]
        ELSE m2

(* --------------- the ports of the implementations of nodes ------------ *)

EINVAL == 22
EPIPE == 32

\* the implementations: the mixer (floatmix.c), the merger, the splitter and
\* the SCO sink
Kinds == {"mixer", "merger", "splitter", "sco-sink"}
\* their ports: direction and port id
PortIds == {"in0", "in1", "out0", "out1"}
SPA_DIRECTION_INPUT == "in"
SPA_DIRECTION_OUTPUT == "out"
Direction(p) == IF p \in {"in0", "in1"} THEN SPA_DIRECTION_INPUT ELSE SPA_DIRECTION_OUTPUT
\* CHECK_PORT
CHECK_PORT(kind, p) ==
    CASE kind = "splitter" -> p \in {"in0", "out0", "out1"}
      [] kind = "sco-sink" -> p = "in0"
      [] OTHER -> p \in {"in0", "in1", "out0"}
\* PORT_IS_DSP of the merger; the ports of the splitter other than its input
PORT_IS_DSP(kind, p) ==
    CASE kind = "merger" -> p # "out0"
      [] kind = "splitter" -> p # "in0"
      [] OTHER -> TRUE

\* struct spa_audio_info of a raw format; the zeroed struct
AudioInfo(format, rate, channels, position) ==
    [format |-> format, rate |-> rate, channels |-> channels, position |-> position]
NoAudioInfo == AudioInfo("", 0, 0, "")
\* the format of a profile of two channels, and the format init_port gives
\* each DSP port of that profile
ProfileFormat == AudioInfo("S16", 48000, 2, "FL,FR")
DspFormat == AudioInfo("F32P", 48000, 1, "")

\* struct port of an implementation.  buffers[] is ids (b->id) and queued
\* (BUFFER_FLAG_QUEUED); io is the struct spa_io_buffers the port was given.
NewImplPort ==
    [have_format |-> FALSE, format |-> NoAudioInfo, n_buffers |-> 0,
     ids |-> [i \in 0..MaxBuffers - 1 |-> 0], queued |-> {}, queue |-> <<>>,
     io |-> [status |-> SPA_STATUS_OK, buffer_id |-> SPA_ID_INVALID]]

\* struct impl after impl_init and, for the merger and the splitter, after
\* the port configuration of a profile (impl_node_set_param, init_port)
NewImpl(kind) ==
    [kind |-> kind,
     have_profile |-> kind \in {"merger", "splitter"},
     have_format |-> FALSE, n_formats |-> 0, format |-> NoAudioInfo,
     ports |-> [p \in PortIds |->
                  IF kind \in {"merger", "splitter"} /\ CHECK_PORT(kind, p)
                  THEN IF PORT_IS_DSP(kind, p)
                       THEN [NewImplPort EXCEPT !.format = DspFormat]
                       ELSE [NewImplPort EXCEPT !.format = ProfileFormat,
                                                !.have_format = TRUE]
                  ELSE NewImplPort]]

\* clear_buffers
clear_buffers(pt) ==
    IF pt.n_buffers > 0 THEN [pt EXCEPT !.n_buffers = 0, !.queue = <<>>] ELSE pt

\* queue_buffer: a buffer that has BUFFER_FLAG_QUEUED is not queued again
queue_buffer(pt, id) ==
    IF id \in pt.queued THEN pt
    ELSE [pt EXCEPT !.queue = Append(@, id), !.queued = @ \cup {id}]

\* dequeue_buffer, for a queue that is not empty
dequeue_buffer(pt) ==
    [pt EXCEPT !.queue = Tail(@), !.queued = @ \ {Head(pt.queue)}]

\* a Format param is the tuple of its properties, <<>> is NULL;
\* spa_format_audio_raw_parse reads it into a struct spa_audio_info and
\* spa_format_audio_raw_build writes one from the struct
spa_format_audio_raw_parse(param) == AudioInfo(param[1], param[2], param[3], param[4])
spa_format_audio_raw_build(info) == <<info.format, info.rate, info.channels, info.position>>

\* port_set_format of the four implementations; setup_convert succeeds
port_set_format(pl, p, param) ==
    LET pt == pl.ports[p]
        format == IF param = <<>> THEN NoAudioInfo ELSE spa_format_audio_raw_parse(param)
        cleared == [pl EXCEPT !.ports[p] = clear_buffers(@)]
    IN  CASE pl.kind = "mixer" ->
               IF format = NoAudioInfo
               THEN IF ~pt.have_format THEN [pl |-> pl, res |-> 0]
                    ELSE [pl |-> [cleared EXCEPT !.ports[p].have_format = FALSE,
                                                 !.n_formats = @ - 1,
                                                 !.have_format = IF pl.n_formats = 1
                                                                 THEN FALSE ELSE @],
                          res |-> 0]
               ELSE IF format.format # "F32P" \/ format.channels # 1
               THEN [pl |-> pl, res |-> 0 - EINVAL]
               ELSE IF pl.have_format /\ format.rate # pl.format.rate
               THEN [pl |-> pl, res |-> 0 - EINVAL]
               ELSE [pl |-> [pl EXCEPT !.have_format = TRUE,
                                       !.format = IF pl.have_format THEN @ ELSE format,
                                       !.n_formats = IF pt.have_format THEN @ ELSE @ + 1,
                                       !.ports[p].have_format = TRUE],
                     res |-> 0]
          [] pl.kind \in {"merger", "splitter"} ->
               IF format = NoAudioInfo
               THEN IF ~pt.have_format THEN [pl |-> pl, res |-> 0]
                    ELSE [pl |-> [cleared EXCEPT !.ports[p].have_format =
                                                     IF PORT_IS_DSP(pl.kind, p) THEN FALSE
                                                     ELSE pl.have_profile],
                          res |-> 0]
               ELSE IF PORT_IS_DSP(pl.kind, p)
                       /\ (format.rate # pt.format.rate \/ format.format # "F32P"
                           \/ format.channels # 1)
               THEN [pl |-> pl, res |-> 0 - EINVAL]
               ELSE IF ~PORT_IS_DSP(pl.kind, p) /\ format.channels # 2
               THEN [pl |-> pl, res |-> 0 - EINVAL]
               ELSE [pl |-> [pl EXCEPT !.ports[p].format = format,
                                       !.ports[p].have_format = TRUE],
                     res |-> 0]
          [] OTHER ->
               IF format = NoAudioInfo
               THEN [pl |-> [cleared EXCEPT !.ports[p].have_format = FALSE], res |-> 0]
               ELSE [pl |-> [pl EXCEPT !.ports[p].format = format,
                                       !.ports[p].have_format = TRUE],
                     res |-> 0]

\* impl_node_port_set_param(Format)
impl_node_port_set_param(pl, p, param) ==
    IF ~CHECK_PORT(pl.kind, p) THEN [pl |-> pl, res |-> 0 - EINVAL]
    ELSE port_set_format(pl, p, param)

\* impl_node_port_enum_params(Format) from index 0: the result of the call
\* and the params it emits
impl_node_port_enum_params(pl, p) ==
    IF ~CHECK_PORT(pl.kind, p) THEN [res |-> 0 - EINVAL, params |-> <<>>]
    ELSE IF ~pl.ports[p].have_format THEN [res |-> 0 - EIO, params |-> <<>>]
    ELSE [res |-> 0,
          params |-> <<[index |-> 0,
                        param |-> spa_format_audio_raw_build(
                                      IF pl.kind = "mixer" THEN pl.format
                                      ELSE pl.ports[p].format)]>>]

\* the loop of impl_node_port_use_buffers from buffer i on: bufs[i] tells
\* whether the memory of the buffer is accepted.  The SCO sink marks the
\* buffer outstanding and queues nothing.
RECURSIVE use_buffers_loop(_, _, _, _, _)
use_buffers_loop(kind, p, pt, bufs, i) ==
    IF i > Len(bufs) THEN [pt |-> [pt EXCEPT !.n_buffers = Len(bufs)], res |-> 0]
    ELSE LET b == [pt EXCEPT !.ids[i - 1] = i - 1, !.queued = @ \ {i - 1}]
         IN  IF ~bufs[i] THEN [pt |-> b, res |-> 0 - EINVAL]
             ELSE use_buffers_loop(kind, p,
                      IF Direction(p) = SPA_DIRECTION_OUTPUT /\ kind # "sco-sink"
                      THEN queue_buffer(b, i - 1) ELSE b,
                      bufs, i + 1)

\* a port that takes buffers without looking at its format
use_buffers_unchecked(pl, p, bufs) ==
    IF ~CHECK_PORT(pl.kind, p) THEN [pl |-> pl, res |-> 0 - EINVAL]
    ELSE LET r == use_buffers_loop(pl.kind, p, clear_buffers(pl.ports[p]), bufs, 1)
         IN  [pl |-> [pl EXCEPT !.ports[p] = r.pt], res |-> r.res]
\* impl_node_port_use_buffers
impl_node_port_use_buffers(pl, p, bufs) ==
    IF ~CHECK_PORT(pl.kind, p) THEN [pl |-> pl, res |-> 0 - EINVAL]
    ELSE IF ~pl.ports[p].have_format THEN [pl |-> pl, res |-> 0 - EIO]
    ELSE LET r == use_buffers_loop(pl.kind, p, clear_buffers(pl.ports[p]), bufs, 1)
         IN  [pl |-> [pl EXCEPT !.ports[p] = r.pt], res |-> r.res]

\* impl_node_port_reuse_buffer, for a buffer_id inside buffers[]: only the
\* mixer compares it with n_buffers, and returns what queue_buffer returns
impl_node_port_reuse_buffer(pl, p, buffer_id) ==
    CASE pl.kind = "sco-sink" -> [pl |-> pl, res |-> 0 - ENOTSUP]
      [] ~(CHECK_PORT(pl.kind, p) /\ Direction(p) = SPA_DIRECTION_OUTPUT) ->
           [pl |-> pl, res |-> 0 - EINVAL]
      [] pl.kind = "mixer" ->
           IF buffer_id >= pl.ports[p].n_buffers \/ buffer_id \in pl.ports[p].queued
           THEN [pl |-> pl, res |-> 0 - EINVAL]
           ELSE [pl |-> [pl EXCEPT !.ports[p] = queue_buffer(@, buffer_id)], res |-> 0]
      [] OTHER -> [pl |-> [pl EXCEPT !.ports[p] = queue_buffer(@, buffer_id)], res |-> 0]

\* io->buffer_id < port->n_buffers, of uint32_t values
BufferIdValid(pt) == pt.io.buffer_id # SPA_ID_INVALID /\ pt.io.buffer_id < pt.n_buffers

\* get_in_buffer of the merger, and the body of the loop over the inputs of
\* the mixer
get_in_buffer(pt) ==
    IF pt.io.status # SPA_STATUS_HAVE_DATA \/ ~BufferIdValid(pt)
    THEN [pt |-> pt, res |-> 0 - EPIPE]
    ELSE [pt |-> [pt EXCEPT !.io.status = SPA_STATUS_NEED_DATA], res |-> 0]

\* an output that takes a buffer whatever the status of its area
get_out_buffer_unchecked(kind, pt) ==
    LET r == IF BufferIdValid(pt)
             THEN [queue_buffer(pt, pt.io.buffer_id) EXCEPT
                       !.io.buffer_id = IF kind = "merger" THEN @ ELSE SPA_ID_INVALID]
             ELSE pt
    IN  IF r.queue = <<>>
        THEN [pt |-> IF kind = "splitter" THEN [r EXCEPT !.io.status = 0 - EPIPE] ELSE r,
              res |-> 0 - EPIPE]
        ELSE [pt |-> [dequeue_buffer(r) EXCEPT
                          !.io = [status |-> SPA_STATUS_HAVE_DATA,
                                  buffer_id |-> r.ids[Head(r.queue)]]],
              res |-> 0]
\* get_out_buffer of the merger, and the same steps in the process of the
\* mixer and in the loop over the outputs of the splitter: nothing when the
\* area still has data, else recycle, dequeue and fill the area
get_out_buffer(kind, pt) ==
    IF pt.io.status = SPA_STATUS_HAVE_DATA THEN [pt |-> pt, res |-> SPA_STATUS_HAVE_DATA]
    ELSE LET r == IF BufferIdValid(pt)
                  THEN [queue_buffer(pt, pt.io.buffer_id) EXCEPT
                            !.io.buffer_id = IF kind = "merger" THEN @ ELSE SPA_ID_INVALID]
                  ELSE pt
         IN  IF r.queue = <<>>
             THEN [pt |-> IF kind = "splitter" THEN [r EXCEPT !.io.status = 0 - EPIPE] ELSE r,
                   res |-> 0 - EPIPE]
             ELSE [pt |-> [dequeue_buffer(r) EXCEPT
                               !.io = [status |-> SPA_STATUS_HAVE_DATA,
                                       buffer_id |-> r.ids[Head(r.queue)]]],
                   res |-> 0]

\* render_buffers of the SCO sink: every buffer of the ready list is written
\* and given back, up to the first one whose write fails
render_buffers(pt, written) ==
    IF pt.queue = <<>> THEN pt
    ELSE IF written THEN [pt EXCEPT !.queue = <<>>,
                                    !.queued = @ \ {pt.queue[i] : i \in DOMAIN pt.queue}]
    ELSE dequeue_buffer(pt)

\* impl_node_process of the four implementations; written tells whether the
\* writes of the SCO sink to its socket succeed
impl_node_process(pl, written) ==
    CASE pl.kind = "mixer" ->
           LET out == get_out_buffer(pl.kind, pl.ports["out0"])
               ins == [pl EXCEPT !.ports["in0"] = get_in_buffer(@).pt,
                                 !.ports["in1"] = get_in_buffer(@).pt]
           IN  IF out.res = SPA_STATUS_HAVE_DATA THEN [pl |-> pl, res |-> SPA_STATUS_HAVE_DATA]
               ELSE [pl |-> [ins EXCEPT !.ports["out0"] = out.pt],
                     res |-> IF out.res < 0 THEN out.res
                             ELSE SPA_STATUS_HAVE_DATA + SPA_STATUS_NEED_DATA]
      [] pl.kind = "merger" ->
           LET out == get_out_buffer(pl.kind, pl.ports["out0"])
               in0 == get_in_buffer(pl.ports["in0"])
               in1 == get_in_buffer(pl.ports["in1"])
           IN  IF out.res # 0 THEN [pl |-> [pl EXCEPT !.ports["out0"] = out.pt], res |-> out.res]
               ELSE [pl |-> [pl EXCEPT !.ports["out0"] = out.pt,
                                       !.ports["in0"] = in0.pt,
                                       !.ports["in1"] = in1.pt],
                     res |-> IF in0.res = 0 \/ in1.res = 0
                             THEN SPA_STATUS_HAVE_DATA + SPA_STATUS_NEED_DATA
                             ELSE SPA_STATUS_HAVE_DATA]
      [] pl.kind = "splitter" ->
           LET inport == pl.ports["in0"]
               out0 == get_out_buffer(pl.kind, pl.ports["out0"])
               out1 == get_out_buffer(pl.kind, pl.ports["out1"])
           IN  IF inport.io.status # SPA_STATUS_HAVE_DATA
               THEN [pl |-> pl, res |-> SPA_STATUS_NEED_DATA]
               ELSE IF ~BufferIdValid(inport)
               THEN [pl |-> [pl EXCEPT !.ports["in0"].io.status = 0 - EINVAL],
                     res |-> 0 - EINVAL]
               ELSE [pl |-> [pl EXCEPT !.ports["out0"] = out0.pt,
                                       !.ports["out1"] = out1.pt,
                                       !.ports["in0"].io.status = SPA_STATUS_NEED_DATA],
                     res |-> IF out0.res >= 0 \/ out1.res >= 0
                             THEN SPA_STATUS_HAVE_DATA + SPA_STATUS_NEED_DATA
                             ELSE SPA_STATUS_NEED_DATA]
      [] OTHER ->
           LET port == render_buffers(pl.ports["in0"], written)
               id == port.io.buffer_id
           IN  IF port.io.status = SPA_STATUS_HAVE_DATA /\ BufferIdValid(port)
               THEN IF id \in port.queued
                    THEN [pl |-> [pl EXCEPT !.ports["in0"] =
                                      [port EXCEPT !.io.status = 0 - EINVAL]],
                          res |-> 0 - EINVAL]
                    ELSE [pl |-> [pl EXCEPT !.ports["in0"] =
                                      [render_buffers([port EXCEPT !.queue = Append(@, id),
                                                                   !.queued = @ \cup {id}],
                                                      written)
                                       EXCEPT !.io.status = SPA_STATUS_OK]],
                          res |-> SPA_STATUS_HAVE_DATA]
               ELSE [pl |-> [pl EXCEPT !.ports["in0"] = port], res |-> SPA_STATUS_HAVE_DATA]

(* ------------------------------ actions ------------------------------- *)

\* the variables a handler of a data loop changes, from its result
Commit(r) ==
    LET s == IF clock_step = 0 THEN r ELSE Renumber(r)
    IN  /\ act' = s.act
        /\ fd' = s.fd
        /\ now' = s.now
        /\ busy' = s.busy
        /\ nproc' = s.nproc
        /\ nsignal' = s.nsignal
        /\ incomplete' = s.incomplete
        /\ rtwritefd' = s.rtwritefd
        /\ cnsec' = s.cnsec
        /\ log' = s.log

\* the activation of a node of a graph whose transport is rolling: START was
\* taken and the sync is over
Rolling ==
    [NewActivation EXCEPT !.position.state = SPA_IO_POSITION_STATE_RUNNING,
                          !.position.offset = 0]

\* the activations of the nodes when the graph is elected: pw_node_register
\* gave each clock the id of its node
Activations ==
    [n \in Nodes |-> [(IF n = Driver THEN Rolling ELSE NewActivation)
                         EXCEPT !.position.clock.id = n]]

\* the graph after every node was started: do_node_add ran for the driver
\* and for each follower, and the client of an exported node was told the
\* activation of its driver (client_node_set_activation)
RECURSIVE add_nodes(_, _, _)
add_nodes(tl, a, ns) ==
    IF ns = {} THEN [tl |-> tl, act |-> a]
    ELSE LET n == CHOOSE x \in ns : \A y \in ns : x <= y
             r == add_node(tl, a, n, driver_node(n))
         IN  add_nodes(r.tl, r.act, ns \ {n})

\* the graph after every node was started; which followers are exported is
\* left to the specifications
StartedGraph ==
    /\ node = [n \in Nodes |-> StartedNode(n)]
    /\ target_list = add_nodes([n \in Nodes |-> <<>>], Activations, Nodes).tl
    /\ on_loop = [n \in Nodes |-> TRUE]
    /\ exported \in [Nodes -> BOOLEAN]
    /\ exported[Driver] = FALSE
    /\ links = [n \in Nodes |-> IF exported[n] THEN <<LinkTarget(n, driver_node(n))>>
                                ELSE <<>>]
    /\ nmsg = [n \in Nodes |-> 0]
    /\ cpc = [n \in Nodes |-> "poll"]
    /\ ctodo = [n \in Nodes |-> <<>>]
    /\ work = [n \in Nodes |-> <<>>]
    /\ plugin = NewImpl("mixer")
    /\ node_data = NewNodeData

\* what the data loops work on before the first cycle
Fresh ==
    [act |-> add_nodes([n \in Nodes |-> <<>>], Activations, Nodes).act,
     fd |-> [n \in Nodes |-> FALSE], now |-> 1, busy |-> [n \in Nodes |-> 0],
     nproc |-> [n \in Nodes |-> 0], nsignal |-> [n \in Nodes |-> 0], incomplete |-> FALSE,
     rtwritefd |-> [n \in Nodes |-> FALSE], cnsec |-> [n \in Nodes |-> 0], log |-> <<>>]

\* the data loops work on s
Holds(s) ==
    /\ act = s.act
    /\ fd = s.fd
    /\ now = s.now
    /\ busy = s.busy
    /\ nproc = s.nproc
    /\ nsignal = s.nsignal
    /\ incomplete = s.incomplete
    /\ rtwritefd = s.rtwritefd
    /\ cnsec = s.cnsec
    /\ log = s.log

\* the state after every node was created and started
Started == StartedGraph /\ Holds(Fresh)

\* one follower at most is exported, and the clock is too coarse to tell
\* two reads apart
Init ==
    /\ Started
    /\ exported[2] = FALSE
    /\ clock_step = 0

\* what the implementations of the local followers return in one handler;
\* one that has MaxAsync calls outstanding completes synchronously
ImplChoice(n) ==
    IF n = Driver \/ exported[n] THEN {SPA_STATUS_HAVE_DATA}
    ELSE IF busy[n] = MaxAsync THEN ProcStatus \ {SPA_STATUS_OK}
    ELSE ProcStatus
ImplStatus ==
    {[n \in Nodes |-> IF n = 2 THEN x ELSE IF n = 3 THEN y ELSE SPA_STATUS_HAVE_DATA] :
        x \in ImplChoice(2), y \in ImplChoice(3)}

\* the implementation of the driver calls ready: a cycle starts
DriverTick ==
    /\ on_loop[Driver]
    /\ \E status \in ReadyStatus, st \in ImplStatus :
           Commit(node_ready(Cur, Driver, status, st))
    /\ UNCHANGED <<main, clock_step, target_list, on_loop, exported, links, nmsg, cpc, ctodo>>

\* the implementation of a local follower completes a process call that
\* returned SPA_STATUS_OK: it calls ready
FollowerReady(n) ==
    /\ n # Driver /\ ~exported[n]
    /\ busy[n] > 0
    /\ \E status \in ReadyStatus, st \in ImplStatus :
           Commit(node_ready([Cur EXCEPT !.busy[n] = @ - 1], n, status, st))
    /\ UNCHANGED <<main, clock_step, target_list, on_loop, exported, links, nmsg, cpc, ctodo>>

\* node_on_fd_events of a node of the server whose wake-fd was written
NodeOnFdEvents(n) ==
    /\ ~exported[n]
    /\ fd[n]
    /\ \E st \in ImplStatus :
           Commit(process_node([Cur EXCEPT !.fd[n] = FALSE], n, st))
    /\ UNCHANGED <<main, clock_step, target_list, on_loop, exported, links, nmsg, cpc, ctodo>>

\* the implementation of the driver reports an xrun
NodeXrun ==
    /\ on_loop[Driver]
    /\ act[Driver].xrun_count < MaxXrun
    /\ \E delay \in 0..MaxDelay : Commit(node_xrun(Cur, Driver, now, delay))
    /\ UNCHANGED <<main, clock_step, target_list, on_loop, exported, links, nmsg, cpc, ctodo>>

\* the link the walk of the data loop holds was cleared meanwhile: its
\* target.activation is NULL
Stale(n, t) == ~\E i \in DOMAIN links[n] : links[n][i] = t

\* the data loop of the client dereferences the NULL activation: the client
\* process dies
Fault(n) ==
    /\ cpc' = [cpc EXCEPT ![n] = "fault"]
    /\ ctodo' = [ctodo EXCEPT ![n] = <<>>]
    /\ log' = <<>>
    /\ UNCHANGED <<act, fd, now, busy, nproc, nsignal, incomplete, rtwritefd, cnsec>>

\* node_on_fd_events of an exported node, up to process_node line 834
ClientOnFdEvents(n) ==
    /\ exported[n]
    /\ cpc[n] = "poll"
    /\ fd[n]
    /\ Commit(process_awake(gettime([Cur EXCEPT !.fd[n] = FALSE]), n))
    /\ cpc' = [cpc EXCEPT ![n] = "awake"]
    /\ UNCHANGED <<main, clock_step, target_list, on_loop, exported, links, nmsg, ctodo>>

\* process_node of an exported node, line 845-875, up to the first target
\* of resume_node
ClientProcess(n) ==
    /\ cpc[n] = "awake"
    /\ \E status \in ProcStatus :
         /\ busy[n] = MaxAsync => status # SPA_STATUS_OK
         /\ LET s1 == impl_called(Cur, n, status)
            IN  IF process_is_async(status)
                THEN /\ Commit(owe_ready(s1, n))
                     /\ cpc' = [cpc EXCEPT ![n] = "poll"]
                     /\ ctodo' = ctodo
                ELSE LET s2 == gettime(s1)
                     IN  /\ Commit([resume_finish(s2, n, s2.now) EXCEPT !.cnsec[n] = s2.now])
                         /\ cpc' = [cpc EXCEPT ![n] = IF links[n] = <<>> THEN "poll"
                                                      ELSE "resume"]
                         /\ ctodo' = [ctodo EXCEPT ![n] = links[n]]
    /\ UNCHANGED <<main, clock_step, target_list, on_loop, exported, links, nmsg>>

\* resume_node of an exported node, line 802: the atomic decrement of the
\* next target
ClientResumeDec(n) ==
    /\ cpc[n] = "resume"
    /\ LET t == Head(ctodo[n])
       IN  IF Stale(n, t)
           THEN Fault(n)
           ELSE /\ Commit(resume_dec(Cur, t, n))
                /\ IF resume_dec_signals(Cur, t)
                   THEN /\ cpc' = [cpc EXCEPT ![n] = "signal"]
                        /\ ctodo' = ctodo
                   ELSE /\ cpc' = [cpc EXCEPT ![n] = IF Tail(ctodo[n]) = <<>> THEN "poll"
                                                     ELSE "resume"]
                        /\ ctodo' = [ctodo EXCEPT ![n] = Tail(@)]
    /\ UNCHANGED <<main, clock_step, target_list, on_loop, exported, links, nmsg>>

\* resume_node of an exported node, line 803-805: the target is triggered
\* and signalled through link_signal_func
ClientLinkSignal(n) ==
    /\ cpc[n] = "signal"
    /\ LET t == Head(ctodo[n])
       IN  IF Stale(n, t)
           THEN Fault(n)
           ELSE /\ Commit(link_signal_func(gettime(resume_trigger(Cur, t, cnsec[n], n)), t, n))
                /\ cpc' = [cpc EXCEPT ![n] = IF Tail(ctodo[n]) = <<>> THEN "poll"
                                             ELSE "resume"]
                /\ ctodo' = [ctodo EXCEPT ![n] = Tail(@)]
    /\ UNCHANGED <<main, clock_step, target_list, on_loop, exported, links, nmsg>>

\* the implementation of an exported node completes a process call that
\* returned SPA_STATUS_OK: it calls ready
ClientReady(n) ==
    /\ exported[n]
    /\ cpc[n] = "poll"
    /\ busy[n] > 0
    /\ Commit(remote_node_ready(gettime([Cur EXCEPT !.busy[n] = @ - 1]), n))
    /\ UNCHANGED <<main, clock_step, target_list, on_loop, exported, links, nmsg, cpc, ctodo>>

\* the handlers of the data loop of the server
NextServer ==
    \/ DriverTick
    \/ \E n \in Nodes : FollowerReady(n)
    \/ \E n \in Nodes : NodeOnFdEvents(n)

\* the steps of the data loop of an exported node
NextClient ==
    \/ \E n \in Nodes : ClientOnFdEvents(n)
    \/ \E n \in Nodes : ClientProcess(n)
    \/ \E n \in Nodes : ClientResumeDec(n)
    \/ \E n \in Nodes : ClientLinkSignal(n)
    \/ \E n \in Nodes : ClientReady(n)

Next == NextServer \/ NextClient

Spec == Init /\ [][Next]_vars

\* every node runs on the data loop of the server
InitLocal ==
    /\ Started
    /\ exported = [n \in Nodes |-> FALSE]
    /\ clock_step = 0

NextLocal ==
    \/ DriverTick
    \/ \E n \in Nodes : FollowerReady(n)

SpecLocal == InitLocal /\ [][NextLocal]_vars

\* one data loop, whose driver reports xruns
NextXrun ==
    \/ DriverTick
    \/ \E n \in Nodes : FollowerReady(n)
    \/ NodeXrun

SpecXrun == InitLocal /\ [][NextXrun]_vars

\* pw_loop_invoke(data_loop, do_node_remove): the node leaves the data loop
DoNodeRemove(n) ==
    /\ on_loop[n]
    /\ LET r == remove_node(target_list, act, n)
       IN  /\ target_list' = r.tl
           /\ act' = r.act
    /\ on_loop' = [on_loop EXCEPT ![n] = FALSE]
    /\ log' = <<ListEvent("list_remove", n, "data_loop")>>
    /\ UNCHANGED <<main, clock_step, exported, links, nmsg, fd, rtwritefd, now, busy, cpc, ctodo, cnsec,
                   nproc, nsignal, incomplete>>

\* pw_loop_invoke(data_loop, do_node_add): the node joins the data loop
DoNodeAdd(n) ==
    /\ ~on_loop[n]
    /\ LET r == add_node(target_list, act, n, driver_node(n))
       IN  /\ target_list' = r.tl
           /\ act' = r.act
    /\ on_loop' = [on_loop EXCEPT ![n] = TRUE]
    /\ log' = <<ListEvent("list_add", n, "data_loop")>>
    /\ UNCHANGED <<main, clock_step, exported, links, nmsg, fd, rtwritefd, now, busy, cpc, ctodo, cnsec,
                   nproc, nsignal, incomplete>>

\* the data loop of the client is walking the target list of n
Traversing(n) == cpc[n] \in {"resume", "signal"}

\* client_node_set_activation, the handler of the set_activation message on
\* the main loop of the client: with a memory it appends a link for the peer,
\* without one it clears the link of the peer.  The list is changed in the
\* main-loop thread: a walk of the data loop that runs meanwhile may or may
\* not see an appended link, keeps the cleared link it is at, and no longer
\* finds a cleared link that is ahead of it.
ClientSetActivation(n, peer, valid) ==
    /\ exported[n]
    /\ nmsg[n] < MaxMsgs
    /\ (valid /\ peer # n) => Len(links[n]) < MaxLinks
    /\ nmsg' = [nmsg EXCEPT ![n] = @ + 1]
    /\ LET r == client_node_set_activation(links[n], n, peer, valid)
           done == Event("set_activation", n, IF valid THEN "mem" ELSE "invalid", "",
                         r.res, peer)
       IN  /\ links' = [links EXCEPT ![n] = r.links]
           /\ cpc' = cpc
           /\ IF Len(r.links) > Len(links[n])
              THEN /\ log' = <<ListEvent("list_add", n, "main_loop"), done>>
                   /\ \/ ctodo' = ctodo
                      \/ /\ Traversing(n)
                         /\ ctodo' = [ctodo EXCEPT ![n] = Append(@, LinkTarget(n, peer))]
              ELSE IF Len(r.links) < Len(links[n])
              THEN /\ log' = <<ListEvent("list_remove", n, "main_loop"), done>>
                   /\ ctodo' = [ctodo EXCEPT ![n] =
                                   IF Traversing(n)
                                   THEN <<Head(@)>> \o Without(Tail(@), LinkTarget(n, peer))
                                   ELSE @]
              ELSE /\ log' = <<done>>
                   /\ ctodo' = ctodo
    /\ UNCHANGED <<main, clock_step, act, target_list, on_loop, exported, fd, rtwritefd, now, busy,
                   cnsec, nproc, nsignal, incomplete>>

\* a graph whose nodes come and go, with one exported follower
\* and whose driver has started a cycle in which every implementation has data
InitGraph ==
    /\ clock_step = 0
    /\ StartedGraph
    /\ exported = [n \in Nodes |-> n = 3]
    /\ Holds(node_ready(Fresh, Driver, SPA_STATUS_HAVE_DATA,
                        [n \in Nodes |-> SPA_STATUS_HAVE_DATA]))

NextGraph ==
    \/ \E n \in Nodes : NodeOnFdEvents(n)
    \/ \E n \in Nodes : DoNodeRemove(n)
    \/ \E n \in Nodes : DoNodeAdd(n)
    \/ \E n \in Nodes, peer \in Nodes, valid \in BOOLEAN : ClientSetActivation(n, peer, valid)
    \/ \E n \in Nodes : ClientOnFdEvents(n)
    \/ \E n \in Nodes : ClientProcess(n)
    \/ \E n \in Nodes : ClientResumeDec(n)
    \/ \E n \in Nodes : ClientLinkSignal(n)

SpecGraph == InitGraph /\ [][NextGraph]_vars

\* a clock that tells any two reads apart
InitTime ==
    /\ Started
    /\ exported[2] = FALSE
    /\ clock_step = 1

SpecTime == InitTime /\ [][Next]_vars

InitLocalTime ==
    /\ Started
    /\ exported = [n \in Nodes |-> FALSE]
    /\ clock_step = 1

SpecLocalTime == InitLocalTime /\ [][NextLocal]_vars

(* ----------------------- the states of the nodes ---------------------- *)

\* the variables a handler of the main loop changes, from its result
MainCommit(m) ==
    /\ node' = m.node
    /\ work' = m.work
    /\ plugin' = plugin
    /\ node_data' = node_data
    /\ target_list' = m.target_list
    /\ act' = m.act
    /\ on_loop' = m.on_loop
    /\ log' = m.log
    /\ UNCHANGED <<clock_step, exported, links, nmsg, fd, rtwritefd, now, busy, cpc, ctodo,
                   cnsec, nproc, nsignal, incomplete>>

\* the sequence numbers the work queue of n waits for
Waiting(n) == {work[n][i].seq : i \in DOMAIN work[n]} \ {SPA_ID_INVALID}

\* what the implementation of n may answer to a command: done, failed, or
\* the next sequence number that is not in use
CommandResults(n) ==
    {0, 0 - EIO} \cup
    {SPA_RESULT_RETURN_ASYNC(seq) : seq \in {x \in (1..MaxSeq) \ Waiting(n) :
                                                \A y \in (1..MaxSeq) \ Waiting(n) : x <= y}}
\* the answers of the implementation of n to what a request for state asks
\* of it: Pause, Start, and unsetting the format of a port that has one
ImplAnswers(n, state) ==
    [pause : IF state \in {PW_NODE_STATE_SUSPENDED, PW_NODE_STATE_IDLE}
             THEN CommandResults(n) ELSE {0},
     start : IF state = PW_NODE_STATE_RUNNING THEN CommandResults(n) ELSE {0},
     format : [Ports -> IF state # PW_NODE_STATE_SUSPENDED
                           \/ \A p \in Ports : ~node[n].ports[p].format
                        THEN {0} ELSE CommandResults(n)]]

\* pw_node_initialized
Initialized(n) ==
    /\ node[n].state = PW_NODE_STATE_CREATING
    /\ MainCommit(node_update_state(Main, n, PW_NODE_STATE_SUSPENDED, FALSE))

\* pw_node_set_state, called by the links, the core or a module
SetState(n, state) ==
    /\ Len(work[n]) < MaxWork
    /\ \E r \in ImplAnswers(n, state) : MainCommit(pw_node_set_state(Main, n, state, r))

\* pw_node_set_active
SetActive(n, active) ==
    /\ Len(work[n]) < MaxWork
    /\ \E r \in ImplAnswers(n, PW_NODE_STATE_IDLE) :
           MainCommit(pw_node_set_active(Main, n, active, r))

\* node_send_command: a client sends the Suspend command
NodeSendCommand(n) ==
    \E r \in ImplAnswers(n, PW_NODE_STATE_SUSPENDED) : MainCommit(suspend_node(Main, n, r))

\* node_result: the implementation emits a result while the node waits for
\* one
NodeResult(n, seq, res) ==
    /\ Waiting(n) # {}
    /\ MainCommit(node_result(Main, n, SPA_RESULT_RETURN_ASYNC(seq), res))

\* the main loop is idle: the work queue of n is processed
WorkIdle(n) ==
    /\ \E i \in DOMAIN work[n] : work[n][i].seq = SPA_ID_INVALID
    /\ MainCommit(process_work_queue([Main EXCEPT !.work[n] = <<>>], n, work[n]))

\* node_event: the implementation emits the Error event
NodeEvent(n) ==
    MainCommit(node_update_state(Main, n, PW_NODE_STATE_ERROR, TRUE))

\* a format is set on port p of n and accepted by the implementation
PortSetFormat(n, p) ==
    /\ ~node[n].ports[p].format
    /\ MainCommit([Main EXCEPT !.node[n].ports[p] =
                                   [state |-> PW_PORT_STATE_READY, format |-> TRUE]])

\* the nodes whose state is managed: the others stay started
Managed == {2}

\* the graph is running and a managed node was created: its links are ready
\* or not, and it pauses when idle or not
InitState ==
    /\ clock_step = 0
    /\ \E poi \in BOOLEAN, out \in 0..1, inp \in 0..1 :
         node = [n \in Nodes |->
                    IF n \in Managed
                    THEN [ElectedNode(NewNode(n), n) EXCEPT
                                            !.pause_on_idle = poi,
                                            !.n_used_output_links = 1,
                                            !.n_ready_output_links = out,
                                            !.n_used_input_links = 1,
                                            !.n_ready_input_links = inp]
                    ELSE StartedNode(n)]
    /\ target_list = add_nodes([n \in Nodes |-> <<>>], Activations,
                               Nodes \ Managed).tl
    /\ on_loop = [n \in Nodes |-> n \notin Managed]
    /\ exported = [n \in Nodes |-> FALSE]
    /\ links = [n \in Nodes |-> <<>>]
    /\ nmsg = [n \in Nodes |-> 0]
    /\ cpc = [n \in Nodes |-> "poll"]
    /\ ctodo = [n \in Nodes |-> <<>>]
    /\ Holds([Fresh EXCEPT !.act = add_nodes([n \in Nodes |-> <<>>],
                                             Activations,
                                             Nodes \ Managed).act])
    /\ work = [n \in Nodes |-> <<>>]
    /\ plugin = NewImpl("mixer")
    /\ node_data = NewNodeData

NextState ==
    \/ \E n \in Managed : Initialized(n)
    \/ \E n \in Managed, state \in NodeStates : SetState(n, state)
    \/ \E n \in Managed, active \in BOOLEAN : SetActive(n, active)
    \/ \E n \in Managed : NodeSendCommand(n)
    \/ \E n \in Managed, seq \in 1..MaxSeq, res \in {0, 0 - EIO} : NodeResult(n, seq, res)
    \/ \E n \in Managed : WorkIdle(n)
    \/ \E n \in Managed : NodeEvent(n)

SpecState == InitState /\ [][NextState]_vars

\* an active node that pauses on idle and whose links are ready; its ports
\* get formats
InitSuspend ==
    /\ StartedGraph
    /\ Holds(Fresh)
    /\ exported = [n \in Nodes |-> FALSE]
    /\ clock_step = 0

NextSuspend ==
    \/ \E n \in Managed, state \in NodeStates : SetState(n, state)
    \/ \E n \in Managed : NodeSendCommand(n)
    \/ \E n \in Managed, seq \in 1..MaxSeq, res \in {0, 0 - EIO} : NodeResult(n, seq, res)
    \/ \E n \in Managed : WorkIdle(n)
    \/ \E n \in Managed, p \in Ports : PortSetFormat(n, p)

SpecSuspend == InitSuspend /\ [][NextSuspend]_vars

\* pw_node_set_state, called by the links, the core or a module; the
\* request and what the call returns are recorded
RequestState(n, state) ==
    /\ Len(work[n]) < MaxWork
    /\ \E r \in ImplAnswers(n, state) :
          LET m == pw_node_set_state(Main, n, state, r)
          IN  MainCommit([m EXCEPT !.log = <<Event("state_request", n, node[n].state,
                                                    state, m.res, n)>> \o @])

\* the states of a node of a running graph are requested, and the requests
\* complete
NextRequest ==
    \/ \E n \in Managed, state \in NodeStates : RequestState(n, state)
    \/ \E n \in Managed : WorkIdle(n)
    \/ \E n \in Managed, p \in Ports : PortSetFormat(n, p)

SpecRequest == InitSuspend /\ [][NextRequest]_vars

\* pw_node_destroy(n)
Destroy(n) ==
    /\ ~node[n].freed
    /\ \E r \in ImplAnswers(n, PW_NODE_STATE_SUSPENDED) :
           MainCommit(pw_node_destroy(Main, n, r))

\* a client takes a free slot of the segment owners of the driver of n for n
AcquireSegment(n, i) ==
    /\ ~node[n].freed
    /\ act[driver_node(n)].segment_owner[i] = 0
    /\ act' = [act EXCEPT ![driver_node(n)].segment_owner =
                              segment_owner_cas(@, i, 0, n)]
    /\ log' = <<>>
    /\ UNCHANGED <<main, clock_step, target_list, on_loop, exported, links, nmsg, fd,
                   rtwritefd, now, busy, cpc, ctodo, cnsec, nproc, nsignal, incomplete>>

\* the nodes that were not destroyed
Alive == {n \in Nodes : ~node[n].freed}

\* a running graph whose nodes fail, own segments and are destroyed
NextDestroy ==
    \/ \E n \in Alive : Destroy(n)
    \/ \E n \in Alive : NodeEvent(n)
    \/ \E n \in Alive, i \in 1..2 : AcquireSegment(n, i)

SpecDestroy == InitSuspend /\ [][NextDestroy]_vars

(* ----------------------------- the position -------------------------- *)

\* the variables a write of a client to the shared activations leaves alone
ActivationWrite ==
    /\ log' = <<>>
    /\ UNCHANGED <<main, clock_step, target_list, on_loop, exported, links, nmsg, fd,
                   rtwritefd, now, busy, cpc, ctodo, cnsec, nproc, nsignal, incomplete>>

\* a client swaps a command into the command slot of the driver
SetCommand(command) ==
    /\ act[Driver].command = PW_NODE_ACTIVATION_COMMAND_NONE
    /\ act' = [act EXCEPT ![Driver].command = command]
    /\ ActivationWrite

\* the driver starts a cycle; the cycles that leave the position behind the
\* clock are bounded
PositionTick ==
    /\ act[Driver].position.offset < MaxCycles * act[Driver].position.clock.duration
    /\ DriverTick

\* the clocks of the driver: the default sync_timeout of 5 s is 0, 1 and 2
\* of their cycles
Clocks == {[id |-> Driver, position |-> 0, duration |-> 6, rate_denom |-> 1],
           [id |-> Driver, position |-> 0, duration |-> 5, rate_denom |-> 1],
           [id |-> Driver, position |-> 0, duration |-> 5, rate_denom |-> 2]}

\* a rolling graph with a local and an exported follower, whose driver has
\* one of the clocks
InitSync ==
    /\ StartedGraph
    /\ exported = [n \in Nodes |-> n = 3]
    /\ clock_step = 0
    /\ \E clock \in Clocks : Holds([Fresh EXCEPT !.act[Driver].position.clock = clock])

NextSync ==
    \/ PositionTick
    \/ \E n \in Nodes : NodeOnFdEvents(n)
    \/ \E n \in Nodes : ClientOnFdEvents(n)
    \/ \E n \in Nodes : ClientProcess(n)
    \/ \E n \in Nodes : ClientResumeDec(n)
    \/ \E n \in Nodes : ClientLinkSignal(n)
    \/ SetCommand(PW_NODE_ACTIVATION_COMMAND_START)

SpecSync == InitSync /\ [][NextSync]_vars

\* a client swaps a command into the command slot of the driver whatever
\* the slot holds
SwapCommand(command) ==
    /\ act[Driver].command # command
    /\ act' = [act EXCEPT ![Driver].command = command]
    /\ ActivationWrite

\* a rolling graph whose transport is started and stopped by its clients
InitTransport ==
    /\ StartedGraph
    /\ clock_step = 0
    /\ \E clock \in Clocks : Holds([Fresh EXCEPT !.act[Driver].position.clock = clock])

NextTransport ==
    \/ PositionTick
    \/ SwapCommand(PW_NODE_ACTIVATION_COMMAND_START)
    \/ SwapCommand(PW_NODE_ACTIVATION_COMMAND_STOP)

SpecTransport == InitTransport /\ [][NextTransport]_vars

\* the implementation of the driver moves its clock by one cycle and calls
\* ready; the clock is read up to MaxTicks cycles
ClockTick ==
    /\ on_loop[Driver]
    /\ act[Driver].position.clock.position < MaxTicks * act[Driver].position.clock.duration
    /\ \E status \in ReadyStatus, st \in ImplStatus :
           Commit(node_ready([Cur EXCEPT !.act[Driver].position.clock.position =
                                             @ + act[Driver].position.clock.duration],
                             Driver, status, st))
    /\ UNCHANGED <<main, clock_step, target_list, on_loop, exported, links, nmsg, cpc, ctodo>>

\* a graph of local nodes before the first cycle of its driver: the position
\* is as reset_position left it
InitClock ==
    /\ StartedGraph
    /\ exported = [n \in Nodes |-> FALSE]
    /\ clock_step = 0
    /\ \E clock \in Clocks :
          Holds([Fresh EXCEPT !.act[Driver].position = [NewPosition EXCEPT !.clock = clock]])

NextClock ==
    \/ ClockTick
    \/ SwapCommand(PW_NODE_ACTIVATION_COMMAND_START)
    \/ SwapCommand(PW_NODE_ACTIVATION_COMMAND_STOP)

SpecClock == InitClock /\ [][NextClock]_vars

\* the segment a client stages for node n to reposition the graph to n, and
\* the extras it stages as the owner of a segment
StagedReposition(n, start) ==
    [start |-> start, position |-> n, bar |-> 10 + n, video |-> 10 + n]
StagedSegment(n) == [bar |-> 20 + n, video |-> 20 + n]

\* the client of n stages a reposition, with a start or without
StageReposition(n, start) ==
    /\ act[n].reposition # StagedReposition(n, start)
    /\ act' = [act EXCEPT ![n].reposition = StagedReposition(n, start)]
    /\ ActivationWrite

\* the client of n stages the extras of a segment
StageSegment(n) ==
    /\ act[n].segment # StagedSegment(n)
    /\ act' = [act EXCEPT ![n].segment = StagedSegment(n)]
    /\ ActivationWrite

\* the client of n swaps the id of n into the reposition_owner slot of the
\* driver
SetRepositionOwner(n) ==
    /\ act[Driver].reposition_owner = 0
    /\ act[Driver].position.offset < MaxCycles * act[Driver].position.clock.duration
    /\ act' = [act EXCEPT ![Driver].reposition_owner = n]
    /\ ActivationWrite

\* the driver starts a cycle in which the implementation of node 3 has data
RepositionTick ==
    /\ on_loop[Driver]
    /\ act[Driver].position.offset < MaxCycles * act[Driver].position.clock.duration
    /\ \E status \in ReadyStatus, st \in {x \in ImplStatus : x[3] = SPA_STATUS_HAVE_DATA} :
           Commit(node_ready(Cur, Driver, status, st))
    /\ UNCHANGED <<main, clock_step, target_list, on_loop, exported, links, nmsg, cpc, ctodo>>

\* a rolling graph on one data loop; node 2 may be able to drive, but
\* follows the driver, and the client of node 3 has staged a reposition and
\* its extras
InitPosition ==
    /\ \E driver \in BOOLEAN :
          node = [n \in Nodes |-> IF n = 2 THEN [StartedNode(n) EXCEPT !.driver = driver]
                                  ELSE StartedNode(n)]
    /\ target_list = add_nodes([n \in Nodes |-> <<>>], Activations, Nodes).tl
    /\ on_loop = [n \in Nodes |-> TRUE]
    /\ exported = [n \in Nodes |-> FALSE]
    /\ links = [n \in Nodes |-> <<>>]
    /\ nmsg = [n \in Nodes |-> 0]
    /\ cpc = [n \in Nodes |-> "poll"]
    /\ ctodo = [n \in Nodes |-> <<>>]
    /\ work = [n \in Nodes |-> <<>>]
    /\ plugin = NewImpl("mixer")
    /\ node_data = NewNodeData
    /\ clock_step = 0
    /\ Holds([Fresh EXCEPT !.act[3].reposition = StagedReposition(3, 3),
                            !.act[3].segment = StagedSegment(3)])

NextPosition ==
    \/ RepositionTick
    \/ \E n \in Nodes : FollowerReady(n)
    \/ StageReposition(2, 0) \/ StageReposition(2, 2)
    \/ StageSegment(2)
    \/ \E n \in Followers : SetRepositionOwner(n)
    \/ \E n \in Followers, i \in 1..2 : AcquireSegment(n, i)

SpecPosition == InitPosition /\ [][NextPosition]_vars

(* ------------------ the commands of an exported node ------------------ *)

\* client_node_command: the server sent command to the client of node n
ClientNodeCommand(n, command) ==
    /\ Len(work[n]) < MaxWork
    /\ \E r \in ImplAnswers(n, IF command = "Start" THEN PW_NODE_STATE_RUNNING
                                ELSE PW_NODE_STATE_IDLE) :
           MainCommit(client_node_command(Main, n, command, r))

\* the node object a client keeps for its exported node: it is activated
\* and gets the commands of the server
NextCommand ==
    \/ \E n \in Managed : Initialized(n)
    \/ \E n \in Managed, command \in NodeCommands : ClientNodeCommand(n, command)
    \/ \E n \in Managed, active \in BOOLEAN : SetActive(n, active)
    \/ \E n \in Managed, seq \in 1..MaxSeq, res \in {0, 0 - EIO} : NodeResult(n, seq, res)
    \/ \E n \in Managed : WorkIdle(n)

SpecCommand == InitState /\ [][NextCommand]_vars

(* --------------------- the properties of the nodes -------------------- *)

\* the properties a node is created with or updated to: node.driver is
\* present or not
Properties == [driver : BOOLEAN, pause_on_idle : {TRUE}, latency : {NoLatency}]

\* update_properties(n, dict): p is the set of properties after the update
UpdateProperties(n, p) ==
    /\ ~node[n].freed
    /\ MainCommit(check_properties(Main, n, p))

\* pw_node_register(n)
Register(n) ==
    /\ ~node[n].freed
    /\ MainCommit(pw_node_register(Main, n))

\* pw_node_set_driver(n, driver), called when the graph is recalculated:
\* driver is a registered node that can drive, or NULL
SetDriver(n, driver0) ==
    /\ ~node[n].freed
    /\ node[n].registered
    /\ driver0 # 0 => /\ ~node[driver0].freed
                      /\ node[driver0].registered
                      /\ node[driver0].driver
    /\ MainCommit(pw_node_set_driver([Main EXCEPT !.log = <<Event("set_driver", n,
                                                                 node[n].driver_node,
                                                                 driver0, 0, n)>>],
                                     n, driver0))

\* nodes as pw_node_new leaves them, each with its properties
Created(ps) ==
    /\ \E p \in [Nodes -> ps] : node = [n \in Nodes |-> pw_node_new(n, p[n])]
    /\ target_list = [n \in Nodes |-> <<>>]
    /\ on_loop = [n \in Nodes |-> FALSE]
    /\ exported = [n \in Nodes |-> FALSE]
    /\ links = [n \in Nodes |-> <<>>]
    /\ nmsg = [n \in Nodes |-> 0]
    /\ cpc = [n \in Nodes |-> "poll"]
    /\ ctodo = [n \in Nodes |-> <<>>]
    /\ work = [n \in Nodes |-> <<>>]
    /\ clock_step = 0
    /\ Holds([Fresh EXCEPT !.act = [n \in Nodes |-> NewActivation]])

InitDriver == Created(Properties) /\ plugin = NewImpl("mixer") /\ node_data = NewNodeData

NextDriver ==
    \/ \E n \in Nodes, p \in Properties : UpdateProperties(n, p)
    \/ \E n \in Nodes : Register(n)
    \/ \E n \in Nodes, driver0 \in Nodes \cup {0} : SetDriver(n, driver0)
    \/ \E n \in Nodes : Destroy(n)

SpecDriver == InitDriver /\ [][NextDriver]_vars

\* a running graph of local nodes in which node 2 can drive as well
InitMove ==
    /\ node = [n \in Nodes |-> [StartedNode(n) EXCEPT !.driver = n \in {Driver, 2}]]
    /\ target_list = add_nodes([n \in Nodes |-> <<>>], Activations, Nodes).tl
    /\ on_loop = [n \in Nodes |-> TRUE]
    /\ exported = [n \in Nodes |-> FALSE]
    /\ links = [n \in Nodes |-> <<>>]
    /\ nmsg = [n \in Nodes |-> 0]
    /\ cpc = [n \in Nodes |-> "poll"]
    /\ ctodo = [n \in Nodes |-> <<>>]
    /\ work = [n \in Nodes |-> <<>>]
    /\ plugin = NewImpl("mixer")
    /\ node_data = NewNodeData
    /\ Holds(Fresh)
    /\ clock_step = 0

\* the nodes of a running graph are started, paused, suspended, given
\* other drivers and destroyed
NextMove ==
    \/ \E n \in Followers, driver0 \in Nodes \cup {0} : SetDriver(n, driver0)
    \/ \E n \in Managed, state \in {PW_NODE_STATE_IDLE, PW_NODE_STATE_RUNNING} :
           ~node[n].freed /\ SetState(n, state)
    \/ \E n \in Managed : ~node[n].freed /\ NodeSendCommand(n)
    \/ \E n \in Managed : ~node[n].freed /\ WorkIdle(n)
    \/ \E n \in Nodes : Destroy(n)

SpecMove == InitMove /\ [][NextMove]_vars

\* the values of node.latency: num/denom with a product num * 48000 below
\* and above 2^32, and text that sscanf does not read as two numbers
Nums == {0, 1, 256, 1000, 1024, 89478, 89479, 100000}
Denoms == {0, 1, 44100, 48000}
Latencies == {NoLatency} \cup {<<num, denom>> : num \in Nums, denom \in Denoms}
LatencyProperties == [driver : {FALSE}, pause_on_idle : {TRUE}, latency : Latencies]

\* nodes that are created without a latency; one of them gets latencies
InitQuantum == Created(Properties) /\ plugin = NewImpl("mixer") /\ node_data = NewNodeData

NextQuantum == \E n \in Managed, p \in LatencyProperties : UpdateProperties(n, p)

SpecQuantum == InitQuantum /\ [][NextQuantum]_vars

(* ------------------- the ports of an implementation ------------------- *)

\* the variables no method of an implementation changes
host == <<act, target_list, on_loop, exported, links, nmsg, fd, rtwritefd, now, clock_step,
          busy, cpc, ctodo, cnsec, nproc, nsignal, incomplete, node, work, node_data>>

\* a method of the implementation was called on port p with arg and returned
\* res after it emitted params
PortEvent(ev, p, arg, res, params) ==
    [ev |-> ev, port |-> p, arg |-> arg, res |-> res, params |-> params]

\* no buffer is twice in a list: spa_list_append of a buffer that is in the
\* list already breaks the list, and the calls that would do so are left out
Listed(pl) ==
    \A p \in PortIds :
        Cardinality({pl.ports[p].queue[i] : i \in DOMAIN pl.ports[p].queue})
            = Len(pl.ports[p].queue)

\* the Format params a host tries, and NULL
FormatParams ==
    {<<"F32P", 48000, 1, "FL">>, <<"F32P", 48000, 1, "FR">>, <<"F32P", 44100, 1, "FL">>,
     <<"S16", 48000, 2, "FL,FR">>, <<>>}
\* the buffers of a call to use_buffers: whether the memory of each is mapped
BufferSets == UNION {[1..k -> BOOLEAN] : k \in 0..MaxBuffers}

\* impl_node_port_set_param(Format) was called
PortSetParam(p, param) ==
    LET r == impl_node_port_set_param(plugin, p, param)
    IN  /\ plugin' = r.pl
        /\ log' = <<PortEvent("set_param", p, param, r.res, <<>>)>>
        /\ UNCHANGED host

\* impl_node_port_enum_params(Format) was called
PortEnumParams(p) ==
    LET r == impl_node_port_enum_params(plugin, p)
    IN  /\ log' = <<PortEvent("enum_params", p, <<>>, r.res, r.params)>>
        /\ UNCHANGED <<host, plugin>>

\* impl_node_port_use_buffers was called
PortUseBuffers(p, bufs) ==
    LET r == impl_node_port_use_buffers(plugin, p, bufs)
    IN  /\ Listed(r.pl)
        /\ plugin' = r.pl
        /\ log' = <<PortEvent("use_buffers", p, Len(bufs), r.res, <<>>)>>
        /\ UNCHANGED host

\* impl_node_port_reuse_buffer was called
PortReuseBuffer(p, buffer_id) ==
    LET r == impl_node_port_reuse_buffer(plugin, p, buffer_id)
    IN  /\ Listed(r.pl)
        /\ plugin' = r.pl
        /\ log' = <<PortEvent("reuse_buffer", p, buffer_id, r.res, <<>>)>>
        /\ UNCHANGED host

\* impl_node_process was called
Process(written) ==
    LET r == impl_node_process(plugin, written)
    IN  /\ Listed(r.pl)
        /\ plugin' = r.pl
        /\ log' = <<PortEvent("process", "", written, r.res, <<>>)>>
        /\ UNCHANGED host

\* the peer of input port p put buffer buffer_id into its area
PeerHasData(p, buffer_id) ==
    /\ CHECK_PORT(plugin.kind, p) /\ Direction(p) = SPA_DIRECTION_INPUT
    /\ plugin.ports[p].io.status # SPA_STATUS_HAVE_DATA
    /\ plugin' = [plugin EXCEPT !.ports[p].io = [status |-> SPA_STATUS_HAVE_DATA,
                                                 buffer_id |-> buffer_id]]
    /\ log' = <<PortEvent("have_data", p, buffer_id, 0, <<>>)>>
    /\ UNCHANGED host

\* the peer of output port p consumed the buffer of its area
PeerNeedsData(p) ==
    /\ CHECK_PORT(plugin.kind, p) /\ Direction(p) = SPA_DIRECTION_OUTPUT
    /\ plugin.ports[p].io.status = SPA_STATUS_HAVE_DATA
    /\ plugin' = [plugin EXCEPT !.ports[p].io.status = SPA_STATUS_NEED_DATA]
    /\ log' = <<PortEvent("need_data", p, <<>>, 0, <<>>)>>
    /\ UNCHANGED host

\* an implementation of each kind, before its first method
InitPorts ==
    /\ Created({[driver |-> FALSE, pause_on_idle |-> TRUE, latency |-> NoLatency]})
    /\ \E kind \in Kinds : plugin = NewImpl(kind)
    /\ node_data = NewNodeData

\* the host configures the first input and the first output, and tries a
\* port that does not exist
Configured(kind) == {p \in PortIds : p \in {"in0", "out0"} \/ ~CHECK_PORT(kind, p)}

NextPorts ==
    \/ \E p \in Configured(plugin.kind), param \in FormatParams : PortSetParam(p, param)
    \/ \E p \in Configured(plugin.kind) : PortEnumParams(p)
    \/ \E p \in Configured(plugin.kind), bufs \in BufferSets : PortUseBuffers(p, bufs)
    \/ \E p \in Configured(plugin.kind), buffer_id \in 0..MaxBuffers - 1 :
           PortReuseBuffer(p, buffer_id)

SpecPorts == InitPorts /\ [][NextPorts]_vars

\* port p of pl after the host gave it a format and MaxBuffers mapped buffers
Negotiated(pl, p) ==
    IF ~CHECK_PORT(pl.kind, p) THEN pl
    ELSE impl_node_port_use_buffers(
             impl_node_port_set_param(pl, p, IF PORT_IS_DSP(pl.kind, p)
                                             THEN <<"F32P", 48000, 1, "FL">>
                                             ELSE <<"S16", 48000, 2, "FL,FR">>).pl,
             p, [i \in 1..MaxBuffers |-> TRUE]).pl

\* an implementation of each kind whose ports are negotiated
InitProcess ==
    /\ Created({[driver |-> FALSE, pause_on_idle |-> TRUE, latency |-> NoLatency]})
    /\ \E kind \in Kinds :
           plugin = Negotiated(Negotiated(Negotiated(Negotiated(NewImpl(kind), "in0"),
                                                     "in1"), "out0"), "out1")
    /\ node_data = NewNodeData

\* the implementation is scheduled while its peers fill and empty the areas
\* of its ports and the host gives buffers back or brings new ones
NextProcess ==
    \/ \E written \in BOOLEAN : Process(written)
    \/ \E p \in PortIds, buffer_id \in 0..MaxBuffers : PeerHasData(p, buffer_id)
    \/ \E p \in PortIds : PeerNeedsData(p)
    \/ \E buffer_id \in 0..MaxBuffers - 1 : PortReuseBuffer("out0", buffer_id)
    \/ \E bufs \in BufferSets : PortUseBuffers("out0", bufs)

SpecProcess == InitProcess /\ [][NextProcess]_vars

(* ------------------ the links of an exported node -------------------- *)

\* find_activation on the array of links: the index of the first link with
\* node_id, 0 for NULL
links_find_activation(ls, node_id) ==
    IF \E i \in DOMAIN ls : ls[i].node_id = node_id
    THEN CHOOSE i \in DOMAIN ls : /\ ls[i].node_id = node_id
                                  /\ \A j \in DOMAIN ls : ls[j].node_id = node_id => i <= j
    ELSE 0

\* clear_link: the link keeps its place in the array with node_id
\* SPA_ID_INVALID, its map is freed, its signalfd closed, and it leaves
\* the target list
links_clear_link(d, i) ==
    [d EXCEPT !.links[i].node_id = SPA_ID_INVALID,
              !.links[i].activation = FALSE,
              !.freed[d.links[i].map] = @ + 1,
              !.closed[d.links[i].signalfd] = @ + 1,
              !.target_list = SelectSeq(@, LAMBDA j : j # i)]

RECURSIVE clear_links(_, _)
\* clean_transport, line 130-133: every link that was not cleared is
clear_links(d, i) ==
    IF i > Len(d.links) THEN d
    ELSE clear_links(IF d.links[i].node_id # SPA_ID_INVALID THEN links_clear_link(d, i)
                     ELSE d,
                     i + 1)

\* clean_transport
clean_transport(d) ==
    IF ~d.have_transport THEN d
    ELSE [clear_links(d, 1) EXCEPT !.links = <<>>,
                                   !.freed[d.activation] = @ + 1,
                                   !.closed[d.rtwritefd] = @ + 1,
                                   !.remote_id = SPA_ID_INVALID,
                                   !.have_transport = FALSE]

\* client_node_transport: message d.next brings node_id, the fds and the
\* memory of the activation, which is mapped or not
client_node_transport(d, node_id, mapped) ==
    LET d1 == [clean_transport(d) EXCEPT !.next = @ + 1]
    IN  IF ~mapped THEN [d1 EXCEPT !.res = 0 - EINVAL]
        ELSE [d1 EXCEPT !.activation = d.next, !.remote_id = node_id,
                        !.rtwritefd = d.next, !.have_transport = TRUE, !.res = 0]

\* the memory of a set_activation message: one that is mapped, one that
\* cannot be mapped, or SPA_ID_INVALID
Mems == {"mem", "unmappable", "invalid"}

\* client_node_set_activation on struct node_data: message d.next brings
\* node_id, signalfd d.next and the memory mem
links_set_activation(d, node_id, mem) ==
    LET d1 == [d EXCEPT !.next = @ + 1]
        link == links_find_activation(d.links, node_id)
    IN  IF d.remote_id = node_id
        THEN [d1 EXCEPT !.closed[d.next] = @ + 1, !.res = 0]
        ELSE IF mem = "unmappable" THEN [d1 EXCEPT !.res = 0 - EINVAL]
        ELSE IF mem = "mem"
        THEN [d1 EXCEPT !.links = Append(@, [node_id |-> node_id, map |-> d.next,
                                             activation |-> TRUE, signalfd |-> d.next]),
                        !.target_list = Append(@, Len(d.links) + 1),
                        !.made = @ \cup {d.next},
                        !.res = 0]
        ELSE IF link = 0 THEN [d1 EXCEPT !.res = 0 - ENOENT]
        ELSE [links_clear_link(d1, link) EXCEPT !.res = 0]

\* clean_node, line 921, called by node_destroy and
\* client_node_proxy_destroy
clean_node(d) == [clean_transport(d) EXCEPT !.destroyed = TRUE]

(* ------------------ the messages of an exported node ------------------ *)

\* the transport message
RemoteTransport(node_id, mapped) ==
    /\ ~node_data.destroyed
    /\ node_data.next <= MaxRes
    /\ node_data' = client_node_transport(node_data, node_id, mapped)
    /\ log' = <<Event("transport", node_id, IF mapped THEN "mem" ELSE "unmappable", "",
                      node_data'.res, node_id)>>
    /\ UNCHANGED <<act, target_list, on_loop, exported, links, nmsg, fd, rtwritefd, now,
                   clock_step, busy, cpc, ctodo, cnsec, nproc, nsignal, incomplete, node,
                   work, plugin>>

\* the set_activation message
RemoteSetActivation(node_id, mem) ==
    /\ ~node_data.destroyed
    /\ node_data.next <= MaxRes
    /\ node_data' = links_set_activation(node_data, node_id, mem)
    /\ log' = <<Event("set_activation", node_id, mem, "", node_data'.res, node_id)>>
    /\ UNCHANGED <<act, target_list, on_loop, exported, links, nmsg, fd, rtwritefd, now,
                   clock_step, busy, cpc, ctodo, cnsec, nproc, nsignal, incomplete, node,
                   work, plugin>>

\* the proxy or the node of the client is destroyed
RemoteDestroy ==
    /\ ~node_data.destroyed
    /\ node_data' = clean_node(node_data)
    /\ log' = <<Event("destroy", 0, "", "", 0, 0)>>
    /\ UNCHANGED <<act, target_list, on_loop, exported, links, nmsg, fd, rtwritefd, now,
                   clock_step, busy, cpc, ctodo, cnsec, nproc, nsignal, incomplete, node,
                   work, plugin>>

\* a client that has exported a node and waits for the messages of the
\* server
InitRemote == InitDriver

NextRemote ==
    \/ \E node_id \in Nodes, mapped \in BOOLEAN : RemoteTransport(node_id, mapped)
    \/ \E node_id \in Nodes, mem \in Mems : RemoteSetActivation(node_id, mem)
    \/ RemoteDestroy

SpecRemote == InitRemote /\ [][NextRemote]_vars

(* ------------------------------ properties ---------------------------- *)

\* the step is a driver tick: its handler starts a cycle
IsTick == log' # <<>> /\ log'[1].ev = "cycle_start"
\* the driver started a cycle before
CycleStarted == act[Driver].status # NOT_TRIGGERED

\* C1 as claimed: when a cycle ends (the next tick comes), every node was
\* processed exactly once in it
C1_ExactlyOncePerCycle ==
    [][(IsTick /\ CycleStarted) => \A n \in Nodes : nproc[n] = 1]_vars

\* C1 amended: on one data loop every follower is processed exactly once in
\* every cycle; the driver at most once in a cycle whose tick found the graph
\* finished, and exactly once when its pending is 0; a tick that finds the
\* graph unfinished processes the driver once more
C1_OncePerFinishedCycle ==
    CycleStarted =>
        /\ \A n \in Followers : nproc[n] = 1
        /\ ~incomplete => /\ nproc[Driver] <= 1
                          /\ act[Driver].pending = 0 => nproc[Driver] = 1
        /\ incomplete => nproc[Driver] \in {1, 2}

\* a cycle that started finished closed: every node was processed once
C1_Witness ==
    /\ CycleStarted /\ ~incomplete
    /\ act[Driver].pending = 0
    /\ \A n \in Nodes : nproc[n] = 1

\* C2 as claimed: pending of every activation stays within 0 .. required
C2_PendingInRange ==
    \A n \in Nodes : act[n].pending >= 0 /\ U32Le(act[n].pending, act[n].required)

\* the process calls of followers in the history of the last handler
FollowerCalls == {i \in DOMAIN log : log[i].ev = "process" /\ log[i].node # Driver}
\* after its call i the follower decremented the pending counter of the driver
DecAfter(i) ==
    \E j \in DOMAIN log : /\ j > i /\ log[j].ev = "dec"
                           /\ log[j].by = log[i].node /\ log[j].node = Driver
DriverCalls == {i \in DOMAIN log : log[i].ev = "process" /\ log[i].node = Driver}

\* C7 as claimed: whatever status the process call of a follower returned,
\* the follower decrements its targets when the call returns
C7_AnyStatusDecrements == \A i \in FollowerCalls : DecAfter(i)

\* C7 amended: a follower decrements its targets on return from process
\* exactly when the status is not SPA_STATUS_OK (a negative error included);
\* a tick in which no follower returned SPA_STATUS_OK closes its cycle: the
\* pending of the driver reaches 0 and the driver is processed
C7_NonZeroStatusDecrements ==
    /\ \A i \in FollowerCalls : (log[i].val # SPA_STATUS_OK) <=> DecAfter(i)
    /\ (/\ log # <<>> /\ log[1].ev = "cycle_start"
        /\ \A i \in FollowerCalls : log[i].val # SPA_STATUS_OK)
       => /\ act[Driver].pending = 0 /\ act[Driver].status = FINISHED
          /\ \E i \in DriverCalls : \A j \in FollowerCalls : j < i

\* a tick in which one follower failed and the other had data closed
C7_Witness ==
    /\ log # <<>> /\ log[1].ev = "cycle_start"
    /\ \E i, j \in FollowerCalls : log[i].val < 0 /\ log[j].val = SPA_STATUS_HAVE_DATA
    /\ act[Driver].pending = 0 /\ act[Driver].status = FINISHED

\* the four fields an xrun updates
XrunFields(a) == <<a.xrun_count, a.xrun_time, a.xrun_delay, a.max_delay>>
\* the step is an xrun callback of the driver
IsXrun == log' # <<>> /\ log'[1].ev = "xrun"
Resignalled(l) == \E i \in DOMAIN l : l[i].ev = "not_finished"

StatusStores == {i \in DOMAIN log : log[i].ev = "status"}
Step(i) == <<log[i].from, log[i].to>>
CycleSteps == {<<NOT_TRIGGERED, TRIGGERED>>, <<TRIGGERED, AWAKE>>, <<AWAKE, FINISHED>>,
               <<FINISHED, NOT_TRIGGERED>>}

\* C9 as claimed: a status only steps NOT_TRIGGERED -> TRIGGERED -> AWAKE ->
\* FINISHED -> NOT_TRIGGERED (a store of the value it has is no step)
C9_OnlyCycleSteps ==
    \A i \in StatusStores : log[i].from = log[i].to \/ Step(i) \in CycleSteps

\* C9 amended: a follower steps NOT_TRIGGERED -> TRIGGERED -> AWAKE ->
\* FINISHED, is reset to NOT_TRIGGERED at the next cycle start from AWAKE
\* (its call continues asynchronously) or FINISHED; the driver is stored
\* FINISHED from NOT_TRIGGERED when it starts the cycle, then steps
\* TRIGGERED -> AWAKE -> FINISHED when the cycle closes, and FINISHED ->
\* AWAKE when a tick re-signals it
C9_StepsOfTheCode ==
    \A i \in StatusStores :
        \/ log[i].from = log[i].to
        \/ Step(i) \in CycleSteps \ {<<NOT_TRIGGERED, TRIGGERED>>}
        \/ log[i].node # Driver /\ Step(i) \in {<<NOT_TRIGGERED, TRIGGERED>>,
                                                 <<AWAKE, NOT_TRIGGERED>>}
        \/ log[i].node = Driver /\ Step(i) \in {<<NOT_TRIGGERED, FINISHED>>,
                                                 <<FINISHED, TRIGGERED>>,
                                                 <<FINISHED, AWAKE>>}

\* the driver was stored FINISHED from NOT_TRIGGERED and a follower reset
\* from AWAKE in one tick
C9_Witness ==
    /\ \E i \in StatusStores : log[i].node = Driver /\ Step(i) = <<NOT_TRIGGERED, FINISHED>>
    /\ \E i \in StatusStores : log[i].node # Driver /\ Step(i) = <<AWAKE, NOT_TRIGGERED>>
    /\ \E i \in StatusStores : log[i].node = Driver /\ Step(i) = <<FINISHED, AWAKE>>

\* C3 as claimed: between two cycle starts a target is signalled by one
\* predecessor at most, the one whose decrement returned zero
C3_SignalledOncePerCycle == \A n \in Nodes : nsignal[n] <= 1

\* C5 as claimed: pending of the activation is 0 whenever its status is
\* stored TRIGGERED
C5_TriggeredOnlyAtZero ==
    \A i \in StatusStores : log[i].to = TRIGGERED => log[i].val = 0

\* the changes of target lists in the history of the last handler
ListChanges == {i \in DOMAIN log : log[i].ev \in {"list_add", "list_remove"}}

\* C6 as claimed: every change of a target list is made on the data loop, and
\* no list changes while the data loop walks it
C6_ListsChangeOnDataLoop ==
    /\ \A i \in ListChanges : log[i].from = "data_loop"
    /\ \A n \in Nodes : Traversing(n) => \A i \in ListChanges : log[i].node # n

\* the targets of node a
TargetsOf(a) == {target_list[a][i].activation : i \in DOMAIN target_list[a]}
\* the process call of n returned in the running cycle
Done(n) == act[n].status = FINISHED /\ nproc[n] >= 1

ClosedCycle ==
    /\ CycleStarted /\ ~incomplete
    /\ act[Driver].pending = 0 /\ act[Driver].status = FINISHED /\ nproc[Driver] = 1

C10_TimesOrdered ==
    \A n \in Nodes :
        act[n].status = FINISHED =>
            act[n].signal_time <= act[n].awake_time /\ act[n].awake_time <= act[n].finish_time

\* every node runs on the data loop of the server
AllLocal == \A n \in Nodes : ~exported[n]

\* C10 amended: the order holds for the driver and the followers of a graph
\* that runs on one data loop, and for a follower on the data loop of the
\* server in any graph
C10_TimesOrderedOnServerLoop ==
    \A n \in Nodes :
        (act[n].status = FINISHED /\ (AllLocal \/ (n # Driver /\ ~exported[n]))) =>
            act[n].signal_time <= act[n].awake_time /\ act[n].awake_time <= act[n].finish_time

\* the driver closed a cycle its tick had to re-signal, after a follower
\* completed late
C10_Witness ==
    /\ AllLocal /\ incomplete
    /\ \A n \in Nodes : act[n].status = FINISHED /\ act[n].signal_time > 0
    /\ act[Driver].signal_time < act[Driver].awake_time
    /\ act[Driver].awake_time < act[Driver].finish_time

\* the items of the work queue of n that the idle loop runs in this step
Run(n) == {i \in DOMAIN work[n] : work[n][i].seq = SPA_ID_INVALID}
\* the state of n changes to st in this step
Becomes(n, st) == node[n].state # st /\ node'[n].state = st
\* n is put on the target list of its driver in this step
Joins(n) == ~on_loop[n] /\ on_loop'[n]

\* C11: a node becomes RUNNING, and is added to the target list of its
\* driver, only on a request for RUNNING made while the node was active and
\* its ready links were all its used links, and which sent the Start command
C11_RunningOnlyWhenStartable ==
    [][\A n \in Managed :
          Becomes(n, PW_NODE_STATE_RUNNING) \/ Joins(n) =>
              \E i \in Run(n) : /\ work[n][i].data = PW_NODE_STATE_RUNNING
                                /\ work[n][i].hist.active
                                /\ start_links_ready(node[n])
                                /\ work[n][i].hist.start]_vars

\* the changes of info.state the last handler made
StateChanges == {i \in DOMAIN log : log[i].ev = "state"}
\* the edges of the documented machine
MachineEdges ==
    {<<PW_NODE_STATE_CREATING, PW_NODE_STATE_SUSPENDED>>,
     <<PW_NODE_STATE_SUSPENDED, PW_NODE_STATE_IDLE>>,
     <<PW_NODE_STATE_IDLE, PW_NODE_STATE_SUSPENDED>>,
     <<PW_NODE_STATE_IDLE, PW_NODE_STATE_RUNNING>>,
     <<PW_NODE_STATE_RUNNING, PW_NODE_STATE_IDLE>>}

\* C12 as claimed: every change of info.state follows an edge of the
\* documented machine or leads to ERROR
C12_OnlyMachineEdges ==
    \A i \in StateChanges :
        Step(i) \in MachineEdges \/ log[i].to = PW_NODE_STATE_ERROR

\* C12 amended: every change of info.state leads to a state other than the
\* old one and other than CREATING; a request moves the node from any state
\* to the requested one, also from SUSPENDED to RUNNING and back
C12_NeverBackToCreating ==
    \A i \in StateChanges :
        /\ log[i].to # PW_NODE_STATE_CREATING
        /\ log[i].to # log[i].from

\* a handler took a node from SUSPENDED to RUNNING, another one a RUNNING node
\* to SUSPENDED, and requests for CREATING were made
C12_Witness ==
    \E i \in StateChanges :
        Step(i) \in {<<PW_NODE_STATE_SUSPENDED, PW_NODE_STATE_RUNNING>>,
                     <<PW_NODE_STATE_RUNNING, PW_NODE_STATE_SUSPENDED>>}

\* the targets of the lists that signal activation a
Signalling(tl, a) ==
    {<<l, i>> \in Nodes \X (1..(2 * Cardinality(Nodes))) :
        i \in DOMAIN tl[l] /\ tl[l][i].activation = a}
\* n is in no target list, and the required counts are those of the targets left
OutOfGraph(tl, a, n) ==
    /\ \A l \in Nodes : \A i \in DOMAIN tl[l] : tl[l][i].owner # n
    /\ \A x \in Nodes : a[x].required = Cardinality(Signalling(tl, x))
\* the handler of this step queued a request for st made for n in state old
Requests(n, old, st) ==
    /\ Len(work'[n]) = Len(work[n]) + 1
    /\ work'[n][Len(work'[n])].data = st
    /\ work'[n][Len(work'[n])].hist.state = old

\* C13 as claimed: whenever the state of a node changes from RUNNING to
\* IDLE, whatever active and pause_on_idle are, the node was taken off both
\* target lists, each required count went down by one with it, and Pause was
\* sent
C13_IdleIsOutOfGraph ==
    [][\A n \in Managed :
          node[n].state = PW_NODE_STATE_RUNNING /\ node'[n].state = PW_NODE_STATE_IDLE =>
              /\ ~on_loop'[n]
              /\ OutOfGraph(target_list', act', n)
              /\ \E i \in Run(n) : work[n][i].hist.pause]_vars

\* C13 amended: when pw_node_set_state(IDLE) is requested for a RUNNING node
\* that is active and has pause_on_idle set, the node is taken off both
\* target lists, each required count goes down with the target that is
\* removed, and Pause is sent, before the state changes; and the state
\* changes from RUNNING to IDLE only when a request for IDLE completes
C13_PauseRequestLeavesGraph ==
    [][\A n \in Managed :
          /\ /\ Requests(n, PW_NODE_STATE_RUNNING, PW_NODE_STATE_IDLE)
             /\ work'[n][Len(work'[n])].hist.active
             /\ node[n].pause_on_idle
             => /\ ~on_loop'[n]
                /\ OutOfGraph(target_list', act', n)
                /\ work'[n][Len(work'[n])].hist.pause
          /\ node[n].state = PW_NODE_STATE_RUNNING /\ node'[n].state = PW_NODE_STATE_IDLE
             => \E i \in Run(n) : work[n][i].data = PW_NODE_STATE_IDLE]_vars

\* an active node that pauses on idle went from RUNNING to IDLE
C13_Witness ==
    \E i \in StateChanges :
        /\ Step(i) = <<PW_NODE_STATE_RUNNING, PW_NODE_STATE_IDLE>>
        /\ node[log[i].node].active /\ node[log[i].node].pause_on_idle
        /\ ~on_loop[log[i].node]

\* the nodes the last handler called suspend_node for
Suspended == {log[i].node : i \in {j \in DOMAIN log : log[j].ev = "suspend"}}

\* C14: after suspend_node the node is in no target list, each of its ports
\* is in state CONFIGURE and has no format, and its state is SUSPENDED
C14_SuspendedIsCleared ==
    \A n \in Suspended :
        /\ \A l \in Nodes : \A i \in DOMAIN target_list[l] : target_list[l][i].owner # n
        /\ \A p \in Ports : /\ node[n].ports[p].state = PW_PORT_STATE_CONFIGURE
                            /\ ~node[n].ports[p].format
        /\ node[n].state = PW_NODE_STATE_SUSPENDED

\* the handler of this step queued a request for n that waits for a result
AsyncRequest(n) ==
    /\ Len(work'[n]) = Len(work[n]) + 1
    /\ work'[n][Len(work'[n])].seq # SPA_ID_INVALID
\* an item that waits keeps waiting, unless this step is the result with its
\* sequence number: then it takes the res of the result and no state changes
WaitsForResult(n) ==
    \A i \in DOMAIN work[n] :
        work[n][i].seq # SPA_ID_INVALID =>
            \/ \E j \in DOMAIN work'[n] : work'[n][j] = work[n][i]
            \/ /\ log' # <<>> /\ log'[1].ev = "result"
               /\ log'[1].val = SPA_RESULT_RETURN_ASYNC(work[n][i].seq)
               /\ work'[n][i].seq = SPA_ID_INVALID
               /\ node' = node
\* the idle loop runs the items that do not wait: the last of them decides
\* the state, the requested one if its res >= 0 and ERROR if res < 0, with
\* an error string when this takes the node to ERROR
CompletesWithResult(n) ==
    Len(work'[n]) < Len(work[n]) =>
        LET last == CHOOSE i \in Run(n) : \A j \in Run(n) : j <= i
        IN  IF work[n][last].res < 0
            THEN /\ node'[n].state = PW_NODE_STATE_ERROR
                 /\ Run(n) = {last} /\ node[n].state # PW_NODE_STATE_ERROR => node'[n].error
            ELSE node'[n].state = work[n][last].data

\* C16 as claimed: a request whose command returns an asynchronous result
\* leaves info.state at its old value; the transition completes when the
\* result with the sequence number of the request has arrived, to the
\* requested state if res >= 0 and to ERROR if res < 0, and a result with
\* another sequence number does not complete it
C16_AsyncWaitsForResult ==
    [][\A n \in Managed :
          /\ AsyncRequest(n) => node'[n].state = node[n].state
          /\ WaitsForResult(n)
          /\ CompletesWithResult(n)]_vars

\* C16 amended: the same for a request for IDLE or RUNNING; a request for
\* SUSPENDED stores SUSPENDED at once, also when its result is asynchronous
C16_AsyncIdleRunningWaitsForResult ==
    [][\A n \in Managed :
          /\ AsyncRequest(n) =>
                \/ node'[n].state = node[n].state
                \/ /\ work'[n][Len(work'[n])].data = PW_NODE_STATE_SUSPENDED
                   /\ node'[n].state = PW_NODE_STATE_SUSPENDED
          /\ WaitsForResult(n)
          /\ CompletesWithResult(n)]_vars

\* a request for IDLE or RUNNING got the result it waited for and is about
\* to complete, while another request still waits for another sequence number
C16_Witness ==
    \E n \in Managed : \E i \in DOMAIN work[n] : \E j \in DOMAIN work[n] :
        /\ work[n][i].seq = SPA_ID_INVALID /\ work[n][i].hist.seq # SPA_ID_INVALID
        /\ work[n][i].data \in {PW_NODE_STATE_IDLE, PW_NODE_STATE_RUNNING}
        /\ work[n][j].seq \notin {SPA_ID_INVALID, work[n][i].hist.seq}

\* the entries of the target lists that signal activation l and do not
\* belong to node n
Entries(l, n) ==
    {<<k, i>> \in Nodes \X (1..(2 * Cardinality(Nodes))) :
        /\ i \in DOMAIN target_list[k]
        /\ target_list[k][i].activation = l
        /\ target_list[k][i].owner # n}

\* nothing in the graph refers to node n
Gone(n) ==
    /\ \A l \in Nodes : \A i \in DOMAIN target_list[l] : target_list[l][i] # NodeTarget(n)
    /\ \A l \in Alive \ {n} :
          /\ act[l].required = Cardinality(Entries(l, n))
          /\ node[l].driver_node # n
          /\ n \notin node[l].slave_list
          /\ act[l].segment_owner[1] # n
          /\ act[l].segment_owner[2] # n

\* C15: after pw_node_destroy(N), from any state of N, the target of N is in
\* no target list, no required count counts N, no node has N as its driver,
\* N is in no slave_list and no segment_owner slot holds the id of N
C15_DestroyedIsGone == \A n \in Nodes : node[n].freed => Gone(n)

\* C17: once the position of the driver is STARTING, RUNNING is forced after
\* at most sync_timeout / cycle_duration further cycles, whatever
\* sync_timeout and the clock are, even if no follower clears pending_sync
C17_SyncTimesOut ==
    \A n \in Nodes :
        act[n].position.state = SPA_IO_POSITION_STATE_STARTING
            => act[n].synced <= sync_cycles(act[n])

\* the step is the cycle start of node n, which is its own driver
CycleStartOf(n) == IsTick /\ log'[1].node = n /\ n = driver_node(n)

\* C18: the position of an activation is written only by the cycle start of
\* the driver that owns it: node_ready and process of a follower, node_ready
\* of a node that can drive but is not master, and the writes of the clients
\* that stage a reposition or a segment leave every position unchanged
C18_PositionSingleWriter ==
    [][\A n \in Nodes : act'[n].position # act[n].position => CycleStartOf(n)]_vars

\* the ready callback of node 2, which can drive but is not master, has run
\* after a reposition of node 3 was copied, while node 2 has one staged
C18_Witness ==
    /\ act[Driver].position.segment0.position = 3
    /\ act[2].reposition = StagedReposition(2, 2)
    /\ busy[2] = 0
    /\ nproc[2] = 1
    /\ log = <<>>
    /\ is_driver(2)
    /\ act[2].status = AWAKE

\* the repositions the handler applied, and node n is a target of the driver
Repositions(l) == {i \in DOMAIN l : l[i].ev = "reposition"}
TargetOf(d, n) == \E i \in DOMAIN target_list[d] : target_list[d][i].activation = n

\* the segment of the position after the cycle start took owner from the
\* reposition_owner slot
Repositioned(d, owner) ==
    IF owner # 0 /\ TargetOf(d, owner)
    THEN /\ act'[d].position.segment0.position = act[owner].reposition.position
         /\ act'[d].position.segment0.start =
                IF act[owner].reposition.start # 0 THEN act[owner].reposition.start
                ELSE act'[d].position.clock.position - act[d].position.offset
         /\ \A i \in Repositions(log') : log'[i].val = owner
    ELSE /\ act'[d].position.segment0.position = act[d].position.segment0.position
         /\ act'[d].position.segment0.start = act[d].position.segment0.start
         /\ Repositions(log') = {}

\* C19: at a cycle start the driver copies a reposition segment to
\* segments[0] only from the target whose id it took from reposition_owner;
\* what other followers staged is ignored, the slot is 0 afterwards and at
\* most one reposition is applied
C19_RepositionFromOwner ==
    [][\A d \in Nodes : CycleStartOf(d) =>
          /\ Repositioned(d, act[d].reposition_owner)
          /\ act'[d].reposition_owner = 0
          /\ Cardinality(Repositions(log')) <= 1]_vars

\* the reposition staged by node 2 was applied while node 3 has staged
\* another one
C19_Witness ==
    /\ \E i \in Repositions(log) : log[i].val = 2
    /\ act[Driver].position.segment0.position = 2
    /\ act[3].reposition = StagedReposition(3, 3)
    /\ act[Driver].reposition_owner = 0

\* the extra of the position after a cycle start: the one staged by the
\* owner when the owner is a target, the old one otherwise
ExtraOf(d, owner, staged, old) ==
    IF owner # 0 /\ TargetOf(d, owner) THEN staged[owner] ELSE old

\* C20: at every cycle start segments[0].bar is overwritten only with the
\* segment.bar staged by the target whose id is segment_owner[0], and .video
\* only from the owner in segment_owner[1]; with no owner they are unchanged
C20_ExtrasFromOwners ==
    [][\A d \in Nodes : CycleStartOf(d) =>
          /\ act'[d].position.segment0.bar =
                ExtraOf(d, act[d].segment_owner[1], [n \in Nodes |-> act[n].segment.bar],
                        act[d].position.segment0.bar)
          /\ act'[d].position.segment0.video =
                ExtraOf(d, act[d].segment_owner[2], [n \in Nodes |-> act[n].segment.video],
                        act[d].position.segment0.video)]_vars

\* C21: a node is master exactly when it can drive and is its own driver,
\* and the clock of a registered node has the id of the node
C21_MasterIsOwnDriver ==
    \A n \in Alive :
        /\ node[n].master <=> (node[n].driver /\ node[n].driver_node = n)
        /\ node[n].registered => act[n].position.clock.id = n

\* the quotient num * 48000 / denom in exact arithmetic, as its bytes, the
\* index of the highest bit of bytes that is set (-1 when there is none),
\* and the bytes of the uint32_t 2^k
ExactQuotient(latency) == DivBytes(MulBytes(U32Bytes(latency[1]), 48000, 0), latency[2], 0)
TopBit(b) ==
    LET set == {i \in 0..(8 * Len(b) - 1) : (b[(i \div 8) + 1] \div 2^(i % 8)) % 2 = 1}
    IN  IF set = {} THEN 0 - 1 ELSE CHOOSE i \in set : \A j \in set : j <= i
Pow2Bytes(k) == [i \in 1..4 |-> IF i - 1 = k \div 8 THEN 2^(k % 8) ELSE 0]
\* q is the largest power of two that is at most the exact quotient, or 0
\* when the quotient is 0
IsExactQuantum(q, latency) ==
    LET k == TopBit(ExactQuotient(latency))
    IN  IF k < 0 THEN q = 0 ELSE k <= 31 /\ U32Bytes(q) = Pow2Bytes(k)

\* C30: an update of node.latency to num/denom with denom # 0 leaves the
\* largest power of two that is at most num * 48000 / denom, in exact
\* arithmetic, in quantum_size, and 0 when that quotient is 0; with denom = 0
\* quantum_size is unchanged
C30_QuantumIsExactPowerOfTwo ==
    [][\A i \in DOMAIN log' :
          log'[i].ev = "latency" =>
              IF log'[i].to # 0
              THEN IsExactQuantum(node'[log'[i].node].quantum_size,
                                  <<log'[i].from, log'[i].to>>)
              ELSE node'[log'[i].node].quantum_size
                       = node[log'[i].node].quantum_size]_vars

\* the set_activation messages the last handler answered
Activated(l) == {i \in DOMAIN l : l[i].ev = "set_activation"}
\* the links of ls to the peer
LinksTo(ls, peer) == {i \in DOMAIN ls : ls[i].activation = peer}
\* the signal of target t wakes the peer: its wake-fd becomes readable and
\* its status TRIGGERED
Wakes(t, peer) ==
    LET s == link_signal_func([Cur EXCEPT !.fd[peer] = FALSE], t, t.owner)
    IN  s.fd[peer] /\ s.act[peer].status = TRIGGERED

Commanded(l) == {i \in DOMAIN l : l[i].ev = "node_command"}

\* C29: the client honours Start, Pause and Suspend: Start requests RUNNING,
\* Pause requests IDLE, Suspend suspends the node, and none of them is
\* answered not supported
C29_CommandsHonoured ==
    \A i \in Commanded(log) :
        /\ log[i].val # 0 - ENOTSUP
        /\ log[i].to = "Start" => log[i].from = PW_NODE_STATE_RUNNING
        /\ log[i].to = "Pause" => log[i].from = PW_NODE_STATE_IDLE
        /\ log[i].to = "Suspend" => log[i].node \in Suspended

\* C22: impl_node_port_use_buffers on a port of the mixer, the merger, the
\* splitter or the SCO sink that has no format returns -EIO and leaves the
\* buffers, the buffer count and the queue of the port as they were.
C22_UseBuffersNeedsFormat ==
    [][\A i \in DOMAIN log' :
          (/\ log'[i].ev = "use_buffers"
           /\ CHECK_PORT(plugin.kind, log'[i].port)
           /\ ~plugin.ports[log'[i].port].have_format)
          => /\ log'[i].res = 0 - EIO
             /\ plugin'.ports[log'[i].port] = plugin.ports[log'[i].port]]_vars

\* buffers were offered to an output port that had a format before and has
\* none now, and were refused
C22_Witness ==
    /\ Len(log) = 1 /\ log[1].ev = "use_buffers" /\ log[1].res = 0 - EIO
    /\ log[1].arg = MaxBuffers /\ log[1].port = "out0"
    /\ plugin.ports["out0"].format # NoAudioInfo
    /\ ~plugin.ports["out0"].have_format

\* C23: after port_set_param(Format, NULL) on a valid port the port has no
\* format (enum_params(Format) and use_buffers answer -EIO), no buffers and
\* an empty queue, whatever its state was.
C23_NoFormatNoBuffers ==
    \A i \in DOMAIN log :
        (log[i].ev = "set_param" /\ log[i].arg = <<>> /\ CHECK_PORT(plugin.kind, log[i].port))
        => /\ impl_node_port_enum_params(plugin, log[i].port).res = 0 - EIO
           /\ impl_node_port_use_buffers(plugin, log[i].port, <<>>).res = 0 - EIO
           /\ plugin.ports[log[i].port].n_buffers = 0
           /\ plugin.ports[log[i].port].queue = <<>>

\* C24: once port_set_param(Format, F) succeeded on a port, enum_params(Format)
\* on it yields one result, at index 0, equal to F, and no call other than
\* a port_set_param(Format) on that port changes what it yields.
C24_EnumYieldsFormat ==
    [][\A i \in DOMAIN log' :
          /\ (/\ log'[i].ev = "set_param" /\ log'[i].res = 0 /\ log'[i].arg # <<>>
              /\ CHECK_PORT(plugin.kind, log'[i].port))
             => impl_node_port_enum_params(plugin', log'[i].port)
                    = [res |-> 0, params |-> <<[index |-> 0, param |-> log'[i].arg]>>]
          /\ \A q \in PortIds :
                (/\ CHECK_PORT(plugin.kind, q) /\ plugin.ports[q].have_format
                 /\ ~(log'[i].ev = "set_param" /\ log'[i].port = q))
                => impl_node_port_enum_params(plugin', q)
                       = impl_node_port_enum_params(plugin, q)]_vars

\* C25: port_reuse_buffer(port, id) on an output port of the mixer, the
\* merger or the splitter either queues a buffer whose id is below n_buffers
\* of the port, or returns an error and leaves the queue as it was; an id
\* that is not below n_buffers is never put on the queue.
C25_ReuseChecksId ==
    [][\A i \in DOMAIN log' :
          (/\ log'[i].ev = "reuse_buffer"
           /\ plugin.kind \in {"mixer", "merger", "splitter"}
           /\ CHECK_PORT(plugin.kind, log'[i].port)
           /\ Direction(log'[i].port) = SPA_DIRECTION_OUTPUT)
          => LET before == plugin.ports[log'[i].port]
                 after == plugin'.ports[log'[i].port]
             IN  /\ \/ /\ log'[i].arg < before.n_buffers
                       /\ log'[i].res = 0
                       /\ after.queue = Append(before.queue, log'[i].arg)
                    \/ /\ log'[i].res < 0
                       /\ after.queue = before.queue
                 /\ log'[i].arg >= before.n_buffers => after.queue = before.queue]_vars

\* C26: a process call of the mixer, the merger or the splitter does not
\* produce into an output area whose status is still HAVE_DATA: the status
\* and the buffer_id of the area stay as they are and no buffer of the port
\* is dequeued.
C26_NoOverwrite ==
    [][\A i \in DOMAIN log', p \in PortIds :
          (/\ log'[i].ev = "process"
           /\ plugin.kind \in {"mixer", "merger", "splitter"}
           /\ CHECK_PORT(plugin.kind, p) /\ Direction(p) = SPA_DIRECTION_OUTPUT
           /\ plugin.ports[p].io.status = SPA_STATUS_HAVE_DATA)
          => /\ plugin'.ports[p].io = plugin.ports[p].io
             /\ plugin'.ports[p].queue = plugin.ports[p].queue
             /\ plugin'.ports[p].queued = plugin.ports[p].queued]_vars

\* the mixer was scheduled with an input waiting and free output buffers
\* while its output area still had data, and returned at once
C26_Witness ==
    /\ Len(log) = 1 /\ log[1].ev = "process" /\ log[1].res = SPA_STATUS_HAVE_DATA
    /\ plugin.kind = "mixer"
    /\ plugin.ports["out0"].io.status = SPA_STATUS_HAVE_DATA
    /\ plugin.ports["out0"].queue # <<>>
    /\ plugin.ports["in0"].io.status = SPA_STATUS_HAVE_DATA
    /\ BufferIdValid(plugin.ports["in0"])

\* C27: when process consumes the buffer of an input area (status HAVE_DATA
\* and buffer_id below n_buffers) the status of the area is NEED_DATA when it
\* returns, and when process sets an output area to HAVE_DATA the buffer_id
\* of the area is below n_buffers of the port.
C27_AreasAfterProcess ==
    [][\A i \in DOMAIN log', p \in PortIds :
          (log'[i].ev = "process" /\ CHECK_PORT(plugin.kind, p))
          => /\ (/\ Direction(p) = SPA_DIRECTION_INPUT
                 /\ plugin.ports[p].io.status = SPA_STATUS_HAVE_DATA
                 /\ BufferIdValid(plugin.ports[p])
                 /\ plugin'.ports[p].io.status # SPA_STATUS_HAVE_DATA)
                => plugin'.ports[p].io.status = SPA_STATUS_NEED_DATA
             /\ (/\ Direction(p) = SPA_DIRECTION_OUTPUT
                 /\ plugin.ports[p].io.status # SPA_STATUS_HAVE_DATA
                 /\ plugin'.ports[p].io.status = SPA_STATUS_HAVE_DATA)
                => BufferIdValid(plugin'.ports[p])]_vars

\* C39: when port_use_buffers of the mixer, the merger or the splitter fails
\* on a buffer of the set it was given, the port has n_buffers 0 and an
\* empty queue: no buffer of the rejected set stays queued.
C39_FailedUseBuffersClears ==
    \A i \in DOMAIN log :
        (/\ log[i].ev = "use_buffers" /\ log[i].res = 0 - EINVAL
         /\ plugin.kind \in {"mixer", "merger", "splitter"}
         /\ CHECK_PORT(plugin.kind, log[i].port))
        => /\ plugin.ports[log[i].port].n_buffers = 0
           /\ plugin.ports[log[i].port].queue = <<>>

\* the buffers that are in the queue of a port
InQueue(pt) == {pt.queue[j] : j \in DOMAIN pt.queue}

\* C38: on every output port of the mixer, the merger and the splitter,
\* after any use_buffers, process and reuse_buffer calls, a buffer with an id
\* below n_buffers is in the queue exactly if it has the QUEUED flag, no
\* buffer is in the queue twice, the queue holds only ids below n_buffers,
\* and reuse_buffer of a queued buffer leaves the queue as it was.
C38_QueueAndFlags ==
    [][\A p \in PortIds :
          (/\ plugin.kind \in {"mixer", "merger", "splitter"}
           /\ CHECK_PORT(plugin.kind, p) /\ Direction(p) = SPA_DIRECTION_OUTPUT)
          => LET before == plugin.ports[p]
                 after == plugin'.ports[p]
             IN  /\ \A id \in 0..after.n_buffers - 1 :
                        id \in after.queued <=> id \in InQueue(after)
                 /\ Cardinality(InQueue(after)) = Len(after.queue)
                 /\ \A id \in InQueue(after) : id < after.n_buffers
                 /\ \A i \in DOMAIN log' :
                        (/\ log'[i].ev = "reuse_buffer" /\ log'[i].port = p
                         /\ log'[i].arg \in InQueue(before))
                        => after.queue = before.queue]_vars

\* the commands the cycle start of the step applied
CommandsApplied == SelectSeq(log', LAMBDA e : e.ev = "command")
\* the cycle start of the step took command c out of the slot of the driver
\* and applied it, once: START makes the position STARTING and arms
\* sync_left, STOP makes it STOPPED
TakesCommand(c) ==
    /\ act'[Driver].command = PW_NODE_ACTIVATION_COMMAND_NONE
    /\ IF c = PW_NODE_ACTIVATION_COMMAND_NONE THEN CommandsApplied = <<>>
       ELSE /\ Len(CommandsApplied) = 1
            /\ CommandsApplied[1].node = Driver
            /\ CommandsApplied[1].from = c
            /\ c = PW_NODE_ACTIVATION_COMMAND_START
                   => /\ CommandsApplied[1].to = SPA_IO_POSITION_STATE_STARTING
                      /\ CommandsApplied[1].val = sync_cycles(act[Driver])
                      /\ act'[Driver].position.state \in {SPA_IO_POSITION_STATE_STARTING,
                                                          SPA_IO_POSITION_STATE_RUNNING}
            /\ c = PW_NODE_ACTIVATION_COMMAND_STOP
                   => /\ CommandsApplied[1].to = SPA_IO_POSITION_STATE_STOPPED
                      /\ act'[Driver].position.state = SPA_IO_POSITION_STATE_STOPPED

\* C31 as claimed: every command written to the command slot of the driver
\* is applied in exactly one cycle: a cycle start exchanges the slot with
\* NONE and applies what it took, and no other step applies a command or
\* takes one out of the slot, so that no command is lost or applied twice.
C31_EveryCommandOnce ==
    [][IF CycleStartOf(Driver) THEN TakesCommand(act[Driver].command)
       ELSE /\ CommandsApplied = <<>>
            /\ act[Driver].command # PW_NODE_ACTIVATION_COMMAND_NONE
                   => act'[Driver].command = act[Driver].command]_vars

\* C31: the command that is in the slot of the driver at a cycle start is
\* applied in exactly that cycle, and a command stays in the slot until a
\* cycle start takes it or a client writes another command over it.
C31_CommandInSlotOnce ==
    [][IF CycleStartOf(Driver) THEN TakesCommand(act[Driver].command)
       ELSE /\ CommandsApplied = <<>>
            /\ act'[Driver].command # PW_NODE_ACTIVATION_COMMAND_NONE]_vars

\* a cycle start took START out of the slot and the sync goes on
C31_Witness ==
    /\ \E i \in DOMAIN log : /\ log[i].ev = "command"
                             /\ log[i].from = PW_NODE_ACTIVATION_COMMAND_START
    /\ act[Driver].command = PW_NODE_ACTIVATION_COMMAND_NONE
    /\ act[Driver].position.state = SPA_IO_POSITION_STATE_STARTING

\* every target of driver n has pending_sync == false when the cycle start
\* of the step looks at it: the followers had before the step, and so had n
\* itself, unless the cycle start found the graph unfinished and first ran
\* the process function of n, which clears the flag of n
\* A cycle start that takes a command or a reposition sets the flag of
\* every target.
TargetsSynced(n) ==
    /\ act[n].command = PW_NODE_ACTIVATION_COMMAND_NONE
    /\ act[n].reposition_owner = 0
    /\ \A i \in DOMAIN target_list[n] :
          LET ta == target_list[n][i].activation
          IN  \/ ~act[ta].pending_sync
              \/ ta = n /\ act[n].pending # 0
\* the step applied START, which made the position STARTING
StartApplied(n) ==
    \E i \in DOMAIN log' : /\ log'[i].ev = "command"
                            /\ log'[i].node = n
                            /\ log'[i].to = SPA_IO_POSITION_STATE_STARTING

\* C32: the position of a driver becomes RUNNING only in a cycle start of
\* that driver, from STARTING (which a STOPPED position reaches only by a
\* START command), and only if every target had pending_sync == false at
\* that cycle start or sync_left has reached zero.
C32_RunningAfterSync ==
    [][\A n \in Nodes :
          (/\ act[n].position.state # SPA_IO_POSITION_STATE_RUNNING
           /\ act'[n].position.state = SPA_IO_POSITION_STATE_RUNNING)
          => /\ CycleStartOf(n)
             /\ \/ act[n].position.state = SPA_IO_POSITION_STATE_STARTING
                \/ StartApplied(n)
             /\ \/ TargetsSynced(n)
                \/ act'[n].sync_left = 0]_vars

\* the sync ended, without a timeout, in a cycle start that found every
\* target ready
C32_Witness ==
    /\ act[Driver].position.state = SPA_IO_POSITION_STATE_RUNNING
    /\ \E i \in DOMAIN log : log[i].ev = "running" /\ log[i].node = Driver
    /\ \A i \in DOMAIN log : log[i].ev # "sync_timeout"
    /\ act[Driver].sync_left > 0

\* the running time of a position
RunningTime(pos) == pos.clock.position - pos.offset
\* the step is the first cycle start of the driver
FirstCycle == CycleStartOf(Driver) /\ act[Driver].position.offset = INT64_MIN
\* the step is a later cycle start of the driver
LaterCycle == CycleStartOf(Driver) /\ act[Driver].position.offset # INT64_MIN
\* a later cycle start that leaves the position STOPPED or STARTING moves
\* the offset with the clock, and one that leaves it RUNNING leaves the
\* offset alone
OffsetFollows ==
    LaterCycle =>
        IF act'[Driver].position.state = SPA_IO_POSITION_STATE_RUNNING
        THEN act'[Driver].position.offset = act[Driver].position.offset
        ELSE /\ act'[Driver].position.offset =
                    act[Driver].position.offset + act[Driver].position.clock.duration
             /\ RunningTime(act'[Driver].position) = RunningTime(act[Driver].position)

SlaveListsOf(n) == {l \in Nodes : n \in node[l].slave_list}
\* every node that was not destroyed has a driver that was not destroyed
\* and is a member of the slave_list of that driver only
OneSlaveList ==
    \A n \in Alive : /\ node[n].driver_node \in Alive
                      /\ SlaveListsOf(n) = {node[n].driver_node}

\* C36: between its creation and its destruction a node is a member of
\* exactly one slave_list, the one of its driver_node, which is never null;
\* pw_node_set_driver(node, NULL) makes the node its own driver.
C36_OneSlaveList ==
    [][/\ OneSlaveList /\ OneSlaveList'
       /\ \A i \in DOMAIN log' :
             log'[i].ev = "set_driver" /\ log'[i].to = 0
                 => /\ node'[log'[i].node].driver_node = log'[i].node
                    /\ log'[i].node \in node'[log'[i].node].slave_list]_vars

\* a node that followed another node was given the driver NULL
C36_Witness ==
    \E i \in DOMAIN log :
        /\ log[i].ev = "set_driver" /\ log[i].to = 0
        /\ log[i].from # log[i].node
        /\ node[log[i].node].driver_node = log[i].node
        /\ \E l \in Alive \ {log[i].node} : node[l].driver_node = log[i].from

\* node n is a local node in the scheduling graph
InGraph(n) == n \in Alive /\ ~exported[n] /\ on_loop[n]
\* the target lists that hold the target of node n
ListsWith(n) ==
    {l \in Nodes : \E i \in DOMAIN target_list[l] : target_list[l][i] = NodeTarget(n)}
\* the activations the driver_target of node n signals, as linked in the
\* target list of n
DriverTargetsOf(n) ==
    {target_list[n][i].activation : i \in {j \in DOMAIN target_list[n] :
                                              /\ target_list[n][j].kind = "driver_target"
                                              /\ target_list[n][j].owner = n}}
\* every node in the graph signals the activation of its driver_node and
\* is signalled by that driver only
FollowsDriver ==
    \A n \in Nodes : InGraph(n) => /\ DriverTargetsOf(n) = {node[n].driver_node}
                                   /\ ListsWith(n) = {node[n].driver_node}
\* the step is pw_node_set_driver(n, driver), which gives n, a node in the
\* graph, another driver than old
MovesTo(n, old, driver) ==
    /\ log' # <<>>
    /\ log'[1].ev = "set_driver" /\ log'[1].node = n /\ log'[1].from = old
    /\ driver = (IF log'[1].to = 0 THEN n ELSE log'[1].to)
    /\ old # driver
    /\ InGraph(n)

EntriesFor(l) ==
    {<<k, i>> \in Alive \X (1..(2 * Cardinality(Nodes))) :
        i \in DOMAIN target_list[k] /\ target_list[k][i].activation = l}
\* no target is twice in a list
NoTargetTwice ==
    \A k \in Alive : \A i, j \in DOMAIN target_list[k] :
        target_list[k][i] = target_list[k][j] => i = j

\* C35: after any sequence of start, pause, suspend, driver change and
\* destroy operations on local nodes, the required count of every
\* activation is the number of entries of all target lists that signal it,
\* and no target is twice in a list.
C35_RequiredCountsEntries ==
    /\ \A l \in Alive : act[l].required = Cardinality(EntriesFor(l))
    /\ NoTargetTwice

\* the step is pw_node_set_state(n, state) on a node in another state,
\* which returns an error
FailedRequest(n, state) ==
    /\ log' # <<>>
    /\ log'[1].ev = "state_request" /\ log'[1].node = n /\ log'[1].to = state
    /\ node[n].state # state
    /\ SPA_RESULT_IS_ERROR(log'[1].val)
\* the step leaves node n as it was: its state, the target lists and the
\* required counts, and its work queue
LeftAsBefore(n) ==
    /\ node'[n].state = node[n].state
    /\ target_list' = target_list
    /\ on_loop' = on_loop
    /\ \A l \in Nodes : act'[l].required = act[l].required
    /\ work'[n] = work[n]

\* C37: a pw_node_set_state that returns a negative error because the
\* state change failed synchronously leaves info.state, the membership of
\* the node in the target list of its driver and the work queue as they
\* were, for requests to SUSPENDED, IDLE and RUNNING alike.
C37_FailedRequestChangesNothing ==
    [][\A n \in Managed :
          \A state \in {PW_NODE_STATE_SUSPENDED, PW_NODE_STATE_IDLE, PW_NODE_STATE_RUNNING} :
              FailedRequest(n, state) => LeftAsBefore(n)]_vars

\* the target list holds one link per peer at most
OneLinkPerPeer ==
    \A i, j \in DOMAIN node_data.target_list :
        LET l == node_data.links[node_data.target_list[i]]
            k == node_data.links[node_data.target_list[j]]
        IN  l.node_id = k.node_id => i = j
\* every link in the target list has a mapped activation and an open
\* signalfd
ListedLinksLive ==
    \A i \in DOMAIN node_data.target_list :
        LET l == node_data.links[node_data.target_list[i]]
        IN  /\ l.activation
            /\ node_data.freed[l.map] = 0
            /\ node_data.closed[l.signalfd] = 0
\* no map of a link is freed twice and no signalfd of a link is closed
\* twice, and both were released when the node is destroyed
ReleasedOnce ==
    \A r \in node_data.made :
        /\ node_data.freed[r] <= 1 /\ node_data.closed[r] <= 1
        /\ node_data.destroyed => node_data.freed[r] = 1 /\ node_data.closed[r] = 1

\* C40: after any sequence of transport and set_activation messages the
\* target list of an exported node holds at most one link per peer node
\* id, every link in the list has a mapped activation and an open signalfd,
\* and the signalfd and the map of each link are released exactly once.
C40_LinksOfPeers == OneLinkPerPeer /\ ListedLinksLive /\ ReleasedOnce

====
